---- MODULE Spec2Model ----
(***************************************************************************)
(* snake-server: the World (playground wrapper + event bus), its event     *)
(* fan-out, and the entities that mutate the playground through it.        *)
(*                                                                         *)
(* The playground and engine packages are imported by src/game/world.go    *)
(* but their code is not part of the sources; the Pg* operators follow     *)
(* section 4.2 of the specification.                                       *)
(***************************************************************************)
EXTENDS Integers, Sequences, FiniteSets, TLC

(***************************************************************************)
(* Bounds of the model.                                                    *)
(***************************************************************************)
\* width of the one-row playground the World interface is exercised on
WorldW == 2
\* capacities of the three queue kinds, scaled down from 512 / 128 / 32
MainBufferSize == 2
ProxyBufferSize == 1
OutBufferSize == 3
\* number of events the publisher of the fan-out specification hands over
MaxEvents == 5
\* the playground the snake, the corpse and the mouse live on
GridW == 3
GridH == 2
\* number of events the entities publish
GridEvents == 5
\* the length a snake is fed up to where it also moves
MaxLength == 4
\* side of the square playground two snakes meet on
DuelW == 4
\* capacity of the channels of the input pipeline of a connection worker
\* (chanReadMessagesBuffer, chanDecodeMessageBuffer,
\* chanProxyInputMessageBuffer, chanInputMessagesBuffer)
ChanInputSize == 1
PlayerBufferSize == 1
CommandsBufferSize == 1
ConnLimit == 2
GroupLimit == 1
\* number of messages the transport delivers to a connection worker
MaxInputs == 2

\* snake.go: snakeStartLength
snakeStartLength == 3

Objects == {"a", "b"}
GridObjects == {"snake", "corpse", "mouse"}
Snakes == {"snake", "snake2"}
Subs == {"sub1", "sub2"}

RECURSIVE SeqToSet(_)
SeqToSet(s) == IF s = <<>> THEN {} ELSE {Head(s)} \cup SeqToSet(Tail(s))

Distinct(s) == \A i, j \in 1 .. Len(s) : i # j => s[i] # s[j]

\* the Locations callers pass: one or two distinct dots, in either order
LocationsOver(dots) == {l \in [1 .. 1 -> dots] \cup [1 .. 2 -> dots] : Distinct(l)}

RECURSIVE SelectSeqIn(_, _)
\* the subsequence of s of the elements that lie in the set keep
SelectSeqIn(s, keep) ==
    IF s = <<>> THEN <<>>
    ELSE IF Head(s) \in keep THEN <<Head(s)>> \o SelectSeqIn(Tail(s), keep)
    ELSE SelectSeqIn(Tail(s), keep)

(***************************************************************************)
(* Playground: the relation object <-> location.  pg[o] = <<>> when o is   *)
(* not registered.  Every operation is one critical section.               *)
(***************************************************************************)
NoLocation == <<>>

PgObjectExists(p, o) == p[o] # NoLocation

PgOccupiedBy(p, d) == {o \in DOMAIN p : d \in SeqToSet(p[o])}

PgFree(p, d) == PgOccupiedBy(p, d) = {}

\* Location.Equals: the same cells; a snake spawned heading south or east
\* keeps its cells in the reverse of the registered order and still moves
LocationEquals(l1, l2) == Len(l1) = Len(l2) /\ SeqToSet(l1) = SeqToSet(l2)

PgEntityExists(p, o, loc) == loc # NoLocation /\ LocationEquals(p[o], loc)

PgLocationExists(p, loc) == \E o \in DOMAIN p : SeqToSet(loc) \subseteq SeqToSet(p[o])

\* the object exactly occupying loc, else "nil"
PgGetObjectByLocation(p, loc) ==
    IF \E o \in DOMAIN p : PgEntityExists(p, o, loc)
    THEN CHOOSE o \in DOMAIN p : PgEntityExists(p, o, loc)
    ELSE "nil"

\* the object whose registered location contains d, else "nil"
PgGetObjectByDot(p, d) ==
    IF PgOccupiedBy(p, d) # {} THEN CHOOSE o \in PgOccupiedBy(p, d) : TRUE ELSE "nil"

RECURSIVE PgGetObjectsByDots(_, _)
\* distinct objects any of whose cells match, in the order of the dots
PgGetObjectsByDots(p, ds) ==
    IF ds = <<>> THEN <<>>
    ELSE LET rest == PgGetObjectsByDots(p, Tail(ds))
             o == PgGetObjectByDot(p, Head(ds))
         IN  IF o = "nil" THEN rest
             ELSE <<o>> \o SelectSeqIn(rest, SeqToSet(rest) \ {o})

PgCanCreate(p, o, loc) ==
    /\ ~PgObjectExists(p, o)
    /\ loc # NoLocation
    /\ \A d \in SeqToSet(loc) : PgFree(p, d)

PgAvailableDots(p, loc) == SelectSeqIn(loc, {d \in SeqToSet(loc) : PgFree(p, d)})

PgCanCreateAvailableDots(p, o, loc) ==
    ~PgObjectExists(p, o) /\ PgAvailableDots(p, loc) # <<>>

PgCanDelete(p, o, loc) == PgEntityExists(p, o, loc)

PgCanUpdate(p, o, old, new) ==
    /\ PgEntityExists(p, o, old)
    /\ new # NoLocation
    /\ \A d \in SeqToSet(new) : PgOccupiedBy(p, d) \subseteq {o}

\* every new cell that is either in old or currently free
PgUpdateAvailableDots(p, old, new) ==
    SelectSeqIn(new, {d \in SeqToSet(new) : d \in SeqToSet(old) \/ PgFree(p, d)})

PgCanUpdateAvailableDots(p, o, old, new) ==
    PgEntityExists(p, o, old) /\ PgUpdateAvailableDots(p, old, new) # <<>>

\* row-major rectangle of rw x rh cells with top-left corner (x, y)
RectLocation(x, y, rw, rh) ==
    [i \in 1 .. rw * rh |-> <<x + ((i - 1) % rw), y + ((i - 1) \div rw)>>]

\* placements of a contiguous, bounded (no wraparound) free rectangle
PgFreeRects(p, w, h, rw, rh) ==
    {l \in {RectLocation(x, y, rw, rh) : x \in 0 .. w - rw, y \in 0 .. h - rh} :
        \A d \in SeqToSet(l) : PgFree(p, d)}

(***************************************************************************)
(* Events.                                                                 *)
(***************************************************************************)
EventTypeError == "Error"
EventTypeObjectCreate == "ObjectCreate"
EventTypeObjectDelete == "ObjectDelete"
EventTypeObjectUpdate == "ObjectUpdate"
EventTypeObjectChecked == "ObjectChecked"

\* id numbers the events in the order in which they enter the main queue
Event(t, payload) == [type |-> t, payload |-> payload, id |-> 0]

\* the zero value of Event, what a receive on a closed, drained channel yields
ZeroEvent == [type |-> "", payload |-> "nil", id |-> 0]

RECURSIVE CheckedEvents(_)
CheckedEvents(objs) ==
    IF objs = <<>> THEN <<>>
    ELSE <<Event(EventTypeObjectChecked, Head(objs))>> \o CheckedEvents(Tail(objs))

VARIABLES
    width,        \* playground width, fixed at construction
    height,       \* playground height, fixed at construction
    pg,           \* world.pg: object -> registered location
    chMain,       \* world.chMain: buffered events
    mainClosed,   \* close(w.chMain) was executed
    stopGlobal,   \* world.stopGlobal is closed
    flagStarted,  \* world.flagStarted
    nextId,       \* number of the next event accepted into chMain
    stopPc,       \* position of the goroutine executing stop()
    pumpPc,       \* position of the goroutine launched by start()
    pumpEv,       \* the event the pump is broadcasting
    pumpIdx,      \* index of broadcast's range loop
    chsProxy,     \* world.chsProxy: subscriber channels (named by subscriber)
    muxW,         \* holder of chsProxyMux's write lock, "none" when free
    muxR,         \* holders of chsProxyMux's read lock
    proxy,        \* buffer of each subscriber's proxy channel
    proxyCloses,  \* number of close() executed on each proxy channel
    out,          \* buffer of each subscriber's output channel
    outClosed,    \* close(chOut) was executed
    stopCh,       \* the stop channel given to Events is closed
    subPc,        \* position of each Events goroutine
    subEv,        \* the event an Events goroutine is sending
    delivered,    \* events the consumer has received from out, in order
    cpc,          \* position of the caller of the World interface
    call,         \* the World call in progress
    snake,        \* the Snake objects and the positions of their Run goroutines
    corpse,       \* the Corpse object and the position of its run goroutine
    panics,       \* run-time panics raised so far
    cwStop,       \* the stop channel given to ConnectionWorker.Start is closed
    chStop,       \* the stop channel returned by read() is closed
    startPc,      \* position of the goroutine executing Start
    readPc,       \* position of the goroutine of read()
    readCount,    \* messages the transport has delivered
    chInputBytes, \* read()'s output channel and whether it is closed
    decodePc,     \* position of the goroutine of decode()
    chInputMessages, \* decode()'s output channel and whether it is closed
    fanPc,        \* position of the goroutine of broadcastInputMessage()
    fanIdx,       \* index of its range loop over cw.chsInput
    fanMsg,       \* the message it is sending
    chsInput,     \* cw.chsInput: the proxy channels, named by subscriber
    chsInputMuxR, \* read locks of cw.chsInputMux that are held
    chProxy,      \* buffer of each subscriber's chProxy
    chProxyCloses, \* number of close() executed on each chProxy
    inputPc,      \* position of each goroutine of input()
    inputMsg,     \* the message it is handing to sendInputMessage
    chout,        \* buffer of each subscriber's output channel
    listenPc,     \* position of each listener reading an output channel
    playerPc,     \* position of the goroutine of Player.Start
    localStopper, \* Player.Start's localStopper is closed
    chPlayer,     \* Player.Start's output channel and whether it is closed
    playerSent,   \* the messages the player has sent, in order
    listenPlayerPc, \* position of the goroutine of listenPlayer
    playerSnake,  \* the snake of the player's current round
    poolConns,    \* PGPool.conns
    poolCap,      \* cap(PGPool.conns)
    poolLast,     \* the last call on the pool, its error, whether it called cancel
    poolCancelled, \* PGPool.cancel has been called
    reqPc,        \* position of each request in ServeHTTP
    reqId,        \* what the request's id is
    reqStatus,    \* the status code written to each request, 0 for none
    reqConn,      \* the result of each request's upgrade
    reqHanded,    \* the request's worker has been given to group.Handle
    groupCount,   \* the slots of the group that are taken
    cwFlagStarted, \* ConnectionWorker.flagStarted
    start2Pc,     \* position of a second call of Start on the same worker
    pipelines,    \* how many calls of Start have created pipelines
    cwBroadcasts, \* the calls of broadcast.BroadcastMessage, caller and message, in order
    readMsg,      \* the message read() is sending
    decodeMsg,    \* the message decode() is sending
    listenMsg,    \* the payload listenSnakeCommands is sending
    chCommands    \* the channel of listenSnakeCommands to the player

Dots == (0 .. width - 1) \X (0 .. height - 1)

Locations == LocationsOver(Dots)

gridVars == <<width, height>>
worldVars == <<chMain, mainClosed, stopGlobal, flagStarted, nextId, stopPc>>
pumpVars == <<pumpPc, pumpEv, pumpIdx>>
subVars == <<chsProxy, muxW, muxR, proxy, proxyCloses, out, outClosed, stopCh, subPc, subEv,
             delivered>>
callVars == <<cpc, call>>
entVars == <<snake, corpse>>
playerVars == <<playerPc, localStopper, chPlayer, playerSent, listenPlayerPc, playerSnake>>
poolVars == <<poolConns, poolCap, poolLast, poolCancelled>>
handlerVars == <<reqPc, reqId, reqStatus, reqConn, reqHanded, groupCount>>
appVars == <<playerVars, poolVars, handlerVars>>
listenVars == <<readMsg, decodeMsg, listenMsg, chCommands>>
startVars == <<cwFlagStarted, start2Pc, pipelines, cwBroadcasts>>
cwVars == <<startVars, listenVars, cwStop, chStop, startPc, readPc, readCount, chInputBytes, decodePc,
            chInputMessages, fanPc, fanIdx, fanMsg, chsInput, chsInputMuxR, chProxy,
            chProxyCloses, inputPc, inputMsg, chout, listenPc>>
vars == <<gridVars, entVars, pg, worldVars, pumpVars, subVars, callVars, panics, cwVars,
          appVars>>

\* op, obj: the method and its object argument; pgOk, pgObjs: what the
\* Playground operation answered; retOk, retObjs: what the method returns;
\* todo, handed: events still to hand / already handed to world.event;
\* enq: how many of them entered chMain
NoCall == [op |-> "none", obj |-> "nil", pgOk |-> TRUE, pgObjs |-> <<>>, retOk |-> TRUE,
           retObjs |-> <<>>, todo |-> <<>>, handed |-> <<>>, enq |-> 0]

\* no Snake / Corpse constructed yet
\* step: the direction of the last committed move; cmdPc, cmd: the
\* Command call in progress
NoSnake == [pc |-> "none", dots |-> <<>>, length |-> 0, direction |-> "e", dot |-> <<0, 0>>,
            heading |-> "", step |-> "", cmdPc |-> "idle", cmd |-> ""]

\* the subscribers Start registers with input(), in this order: the
\* listener of snake commands and the listener of player broadcasts
\* what a receive from a closed, drained channel yields
ZeroInputMessage == ""

Conns == {"ws1", "ws2", "ws3"}
Requests == {"r1", "r2"}
InputSubs == {"commands", "broadcasts"}

InputSubsInOrder == <<"commands", "broadcasts">>

\* a channel just made: its buffer, and whether close() was executed
NewChan == [buf |-> <<>>, closed |-> FALSE]

NoCorpse == [pc |-> "none", location |-> <<>>, newDots |-> <<>>, nipping |-> FALSE]

\* newWorld on an empty playground of w x h cells, objs the objects that
\* will ever be registered
InitWorld(objs, w, h, started) ==
    /\ width = w
    /\ height = h
    /\ pg = [o \in objs |-> NoLocation]
    /\ snake = [s \in Snakes |-> NoSnake]
    /\ corpse = NoCorpse
    /\ chMain = <<>>
    /\ mainClosed = FALSE
    /\ stopGlobal = FALSE
    /\ flagStarted = started
    /\ nextId = 1
    /\ stopPc = "none"
    /\ pumpEv = ZeroEvent
    /\ pumpIdx = 0
    /\ chsProxy = <<>>
    /\ muxW = "none"
    /\ muxR = {}
    /\ proxy = [s \in Subs |-> <<>>]
    /\ proxyCloses = [s \in Subs |-> 0]
    /\ out = [s \in Subs |-> <<>>]
    /\ outClosed = [s \in Subs |-> FALSE]
    /\ stopCh = [s \in Subs |-> FALSE]
    /\ subPc = [s \in Subs |-> "none"]
    /\ subEv = [s \in Subs |-> ZeroEvent]
    /\ delivered = [s \in Subs |-> <<>>]
    /\ cpc = "idle"
    /\ call = NoCall
    /\ panics = {}
    /\ cwStop = FALSE
    /\ chStop = FALSE
    /\ startPc = "new"
    /\ readPc = "none"
    /\ readCount = 0
    /\ chInputBytes = NewChan
    /\ decodePc = "none"
    /\ chInputMessages = NewChan
    /\ fanPc = "none"
    /\ fanIdx = 0
    /\ fanMsg = ""
    /\ chsInput = <<>>
    /\ chsInputMuxR = 0
    /\ chProxy = [s \in InputSubs |-> <<>>]
    /\ chProxyCloses = [s \in InputSubs |-> 0]
    /\ inputPc = [s \in InputSubs |-> "none"]
    /\ inputMsg = [s \in InputSubs |-> ""]
    /\ chout = [s \in InputSubs |-> <<>>]
    /\ listenPc = [s \in InputSubs |-> "none"]
    /\ playerPc = "none"
    /\ localStopper = FALSE
    /\ chPlayer = NewChan
    /\ playerSent = <<>>
    /\ listenPlayerPc = "none"
    /\ playerSnake = ""
    /\ poolConns = <<>>
    /\ poolCap = ConnLimit
    /\ poolLast = [op |-> "new", ws |-> "", err |-> "", cancel |-> FALSE]
    /\ poolCancelled = FALSE
    /\ reqPc = [q \in Requests |-> "idle"]
    /\ reqId = [q \in Requests |-> ""]
    /\ reqStatus = [q \in Requests |-> 0]
    /\ reqConn = [q \in Requests |-> "none"]
    /\ reqHanded = [q \in Requests |-> FALSE]
    /\ groupCount = 0
    /\ cwFlagStarted = FALSE
    /\ start2Pc = "new"
    /\ pipelines = 0
    /\ cwBroadcasts = <<>>
    /\ readMsg = ZeroInputMessage
    /\ decodeMsg = ZeroInputMessage
    /\ listenMsg = ZeroInputMessage
    /\ chCommands = <<>>

Init ==
    /\ InitWorld(Objects, WorldW, 1, FALSE)
    /\ pumpPc = "none"

(***************************************************************************)
(* world.event: select { case w.chMain <- event: case <-w.stopGlobal: }    *)
(* The three operators are the outcomes of one execution of the select:    *)
(* the send proceeds, the send is chosen on a closed channel (panic), or   *)
(* the stopGlobal case is chosen.  With no case ready the caller blocks.   *)
(***************************************************************************)
EventSendReady == ~mainClosed /\ Len(chMain) < MainBufferSize

EventSend(e) ==
    /\ EventSendReady
    /\ chMain' = Append(chMain, [e EXCEPT !.id = nextId])
    /\ nextId' = nextId + 1
    /\ UNCHANGED panics

EventSendClosed ==
    /\ mainClosed
    /\ panics' = panics \cup {"send on closed chMain"}
    /\ UNCHANGED <<chMain, nextId>>

EventStopped ==
    /\ stopGlobal
    /\ UNCHANGED <<chMain, nextId, panics>>

(***************************************************************************)
(* The World methods.  Each operator gives the outcome of the method's     *)
(* critical section on the playground p: the playground afterwards, the    *)
(* Playground result, the events the method hands to world.event in order, *)
(* and what the method returns.                                            *)
(***************************************************************************)
ErrPayload == "err"

Outcome(p, events, retOk, retObjs, loc) ==
    [pg |-> p, events |-> events, retOk |-> retOk, retObjs |-> retObjs, loc |-> loc]

\* the error path of a mutator: publish Error(err), return err
Failed(p) == Outcome(p, <<Event(EventTypeError, ErrPayload)>>, FALSE, <<>>, NoLocation)

\* a method that only forwards to the Playground
Quiet(p, b) == Outcome(p, <<>>, b, <<>>, NoLocation)

WorldObjectExists(p, o) == Quiet(p, PgObjectExists(p, o))

WorldLocationExists(p, loc) == Quiet(p, PgLocationExists(p, loc))

WorldEntityExists(p, o, loc) == Quiet(p, PgEntityExists(p, o, loc))

\* a lookup that publishes ObjectChecked for the objects it returns
Found(p, objs) == Outcome(p, CheckedEvents(objs), objs # <<>>, objs, NoLocation)

WorldGetObjectByLocation(p, loc) ==
    LET object == PgGetObjectByLocation(p, loc)
    IN  IF object # "nil" THEN Found(p, <<object>>) ELSE Found(p, <<>>)

WorldGetObjectByDot(p, d) ==
    LET object == PgGetObjectByDot(p, d)
    IN  IF object # "nil" THEN Found(p, <<object>>) ELSE Found(p, <<>>)

WorldGetEntityByDot(p, d) ==
    LET object == PgGetObjectByDot(p, d)
    IN  IF object # "nil" /\ p[object] # NoLocation
        THEN [Found(p, <<object>>) EXCEPT !.loc = p[object]]
        ELSE Found(p, <<>>)

\* publishing once per call instead of once per object
WorldGetObjectsByDots_Once(p, ds) ==
    LET objects == PgGetObjectsByDots(p, ds)
    IN  IF Len(objects) > 0
        THEN [Found(p, objects) EXCEPT !.events = <<Event(EventTypeObjectChecked, objects[1])>>]
        ELSE Found(p, <<>>)

WorldGetObjectsByDots(p, ds) ==
    LET objects == PgGetObjectsByDots(p, ds)
    IN  IF Len(objects) > 0 THEN Found(p, objects) ELSE Found(p, <<>>)

WorldCreateObject(p, o, loc) ==
    IF ~PgCanCreate(p, o, loc) THEN Failed(p)
    ELSE Outcome([p EXCEPT ![o] = loc],
                 <<Event(EventTypeObjectCreate, o)>>, TRUE, <<>>, loc)

\* registering the requested location instead of its available dots
WorldCreateObjectAvailableDots_AllDots(p, o, loc) ==
    IF ~PgCanCreateAvailableDots(p, o, loc) THEN Failed(p)
    ELSE Outcome([p EXCEPT ![o] = loc],
                 <<Event(EventTypeObjectCreate, o)>>, TRUE, <<>>, PgAvailableDots(p, loc))

WorldCreateObjectAvailableDots(p, o, loc) ==
    IF ~PgCanCreateAvailableDots(p, o, loc) THEN Failed(p)
    ELSE Outcome([p EXCEPT ![o] = PgAvailableDots(p, loc)],
                 <<Event(EventTypeObjectCreate, o)>>, TRUE, <<>>, PgAvailableDots(p, loc))

WorldDeleteObject(p, o, loc) ==
    IF ~PgCanDelete(p, o, loc) THEN Failed(p)
    ELSE Outcome([p EXCEPT ![o] = NoLocation],
                 <<Event(EventTypeObjectDelete, o)>>, TRUE, <<>>, NoLocation)

\* the error branch falling through to the success event
WorldUpdateObject_FallThrough(p, o, old, new) ==
    IF ~PgCanUpdate(p, o, old, new)
    THEN [Failed(p) EXCEPT !.events = @ \o <<Event(EventTypeObjectUpdate, o)>>]
    ELSE Outcome([p EXCEPT ![o] = new],
                 <<Event(EventTypeObjectUpdate, o)>>, TRUE, <<>>, new)

WorldUpdateObject(p, o, old, new) ==
    IF ~PgCanUpdate(p, o, old, new) THEN Failed(p)
    ELSE Outcome([p EXCEPT ![o] = new],
                 <<Event(EventTypeObjectUpdate, o)>>, TRUE, <<>>, new)

WorldUpdateObjectAvailableDots(p, o, old, new) ==
    IF ~PgCanUpdateAvailableDots(p, o, old, new) THEN Failed(p)
    ELSE Outcome([p EXCEPT ![o] = PgUpdateAvailableDots(p, old, new)],
                 <<Event(EventTypeObjectUpdate, o)>>, TRUE, <<>>,
                 PgUpdateAvailableDots(p, old, new))

\* the placements the random creations choose among; {NoLocation} when the
\* Playground operation fails
RandomDotChoices(p, o) ==
    IF PgObjectExists(p, o) \/ {d \in Dots : PgFree(p, d)} = {} THEN {NoLocation}
    ELSE {<<d>> : d \in {e \in Dots : PgFree(p, e)}}

RandomRectChoices(p, o, rw, rh) ==
    IF PgObjectExists(p, o) \/ PgFreeRects(p, width, height, rw, rh) = {} THEN {NoLocation}
    ELSE PgFreeRects(p, width, height, rw, rh)

\* loc is the placement the Playground picked, NoLocation when it failed
WorldCreateObjectRandomDot(p, o, loc) ==
    IF loc = NoLocation THEN Failed(p)
    ELSE Outcome([p EXCEPT ![o] = loc],
                 <<Event(EventTypeObjectCreate, o)>>, TRUE, <<>>, loc)

WorldCreateObjectRandomRect(p, o, loc) ==
    IF loc = NoLocation THEN Failed(p)
    ELSE Outcome([p EXCEPT ![o] = loc],
                 <<Event(EventTypeObjectCreate, o)>>, TRUE, <<>>, loc)

Directions == {"n", "e", "s", "w"}

\* engine navigation on the torus; north is towards smaller y
Navigate(d, dir, dis) ==
    CASE dir = "n" -> <<d[1], (d[2] + height - (dis % height)) % height>>
      [] dir = "s" -> <<d[1], (d[2] + dis) % height>>
      [] dir = "e" -> <<(d[1] + dis) % width, d[2]>>
      [] dir = "w" -> <<(d[1] + width - (dis % width)) % width, d[2]>>

WorldNavigate(p, d, dir, dis) == [Quiet(p, TRUE) EXCEPT !.loc = <<Navigate(d, dir, dis)>>]

WorldSize(p) == Quiet(p, TRUE)

WorldWidth(p) == Quiet(p, TRUE)

WorldHeight(p) == Quiet(p, TRUE)

(***************************************************************************)
(* A caller of the World interface.  A call runs the method's critical     *)
(* section on the playground, then hands its events one by one to          *)
(* world.event, then returns.                                              *)
(***************************************************************************)
Alive == panics = {}

ClientCall(op, obj, pgOk, pgObjs, r) ==
    /\ Alive
    /\ cpc = "idle"
    /\ pg' = r.pg
    /\ call' = [op |-> op, obj |-> obj, pgOk |-> pgOk, pgObjs |-> pgObjs, retOk |-> r.retOk,
                retObjs |-> r.retObjs, todo |-> r.events, handed |-> <<>>, enq |-> 0]
    /\ cpc' = IF r.events = <<>> THEN "returned" ELSE "event"
    /\ UNCHANGED <<gridVars, cwVars, appVars, entVars, worldVars, pumpVars, subVars, panics>>

AsSeq(object) == IF object = "nil" THEN <<>> ELSE <<object>>

ClientObjectExists ==
    \E o \in Objects :
        ClientCall("ObjectExists", o, PgObjectExists(pg, o), <<>>, WorldObjectExists(pg, o))

ClientLocationExists ==
    \E loc \in Locations :
        ClientCall("LocationExists", "nil", PgLocationExists(pg, loc), <<>>,
                   WorldLocationExists(pg, loc))

ClientEntityExists ==
    \E o \in Objects, loc \in Locations :
        ClientCall("EntityExists", o, PgEntityExists(pg, o, loc), <<>>,
                   WorldEntityExists(pg, o, loc))

ClientGetObjectByLocation ==
    \E loc \in Locations :
        ClientCall("GetObjectByLocation", "nil", PgGetObjectByLocation(pg, loc) # "nil",
                   AsSeq(PgGetObjectByLocation(pg, loc)), WorldGetObjectByLocation(pg, loc))

ClientGetObjectByDot ==
    \E d \in Dots :
        ClientCall("GetObjectByDot", "nil", PgGetObjectByDot(pg, d) # "nil",
                   AsSeq(PgGetObjectByDot(pg, d)), WorldGetObjectByDot(pg, d))

ClientGetEntityByDot ==
    \E d \in Dots :
        ClientCall("GetEntityByDot", "nil", PgGetObjectByDot(pg, d) # "nil",
                   AsSeq(PgGetObjectByDot(pg, d)), WorldGetEntityByDot(pg, d))

ClientGetObjectsByDots ==
    \E ds \in Locations :
        ClientCall("GetObjectsByDots", "nil", PgGetObjectsByDots(pg, ds) # <<>>,
                   PgGetObjectsByDots(pg, ds), WorldGetObjectsByDots(pg, ds))

ClientCreateObject ==
    \E o \in Objects, loc \in Locations :
        ClientCall("CreateObject", o, PgCanCreate(pg, o, loc), <<>>,
                   WorldCreateObject(pg, o, loc))

ClientCreateObjectAvailableDots ==
    \E o \in Objects, loc \in Locations :
        ClientCall("CreateObjectAvailableDots", o, PgCanCreateAvailableDots(pg, o, loc), <<>>,
                   WorldCreateObjectAvailableDots(pg, o, loc))

ClientDeleteObject ==
    \E o \in Objects, loc \in Locations :
        ClientCall("DeleteObject", o, PgCanDelete(pg, o, loc), <<>>,
                   WorldDeleteObject(pg, o, loc))

\* the old locations a caller passes to an update: the location registered
\* for the object (none when it is not registered) or a one-cell location
OldLocations(o) == {pg[o]} \cup {<<d>> : d \in Dots}

ClientUpdateObject ==
    \E o \in Objects, new \in Locations : \E old \in OldLocations(o) :
        ClientCall("UpdateObject", o, PgCanUpdate(pg, o, old, new), <<>>,
                   WorldUpdateObject(pg, o, old, new))

ClientUpdateObjectAvailableDots ==
    \E o \in Objects, new \in Locations : \E old \in OldLocations(o) :
        ClientCall("UpdateObjectAvailableDots", o,
                   PgCanUpdateAvailableDots(pg, o, old, new), <<>>,
                   WorldUpdateObjectAvailableDots(pg, o, old, new))

ClientCreateObjectRandomDot ==
    \E o \in Objects : \E loc \in RandomDotChoices(pg, o) :
        ClientCall("CreateObjectRandomDot", o, loc # NoLocation, <<>>,
                   WorldCreateObjectRandomDot(pg, o, loc))

ClientCreateObjectRandomRect ==
    \E o \in Objects, rw \in 1 .. 2, rh \in 1 .. 2 :
        \E loc \in RandomRectChoices(pg, o, rw, rh) :
            ClientCall("CreateObjectRandomRect", o, loc # NoLocation, <<>>,
                       WorldCreateObjectRandomRect(pg, o, loc))

ClientNavigate ==
    \E d \in Dots, dir \in Directions :
        ClientCall("Navigate", "nil", TRUE, <<>>, WorldNavigate(pg, d, dir, 1))

ClientSize == ClientCall("Size", "nil", TRUE, <<>>, WorldSize(pg))

ClientWidth == ClientCall("Width", "nil", TRUE, <<>>, WorldWidth(pg))

ClientHeight == ClientCall("Height", "nil", TRUE, <<>>, WorldHeight(pg))

\* the call's next event has been handed to world.event
Handed(enqueued) ==
    /\ call' = [call EXCEPT !.todo = Tail(@), !.handed = Append(@, Head(call.todo)),
                            !.enq = @ + enqueued]
    /\ cpc' = IF Tail(call.todo) = <<>> THEN "returned" ELSE "event"

\* world.event: the send on chMain proceeds
ClientEventSend ==
    /\ Alive
    /\ cpc = "event"
    /\ EventSend(Head(call.todo))
    /\ Handed(1)
    /\ UNCHANGED <<gridVars, cwVars, appVars, entVars, pg, mainClosed, stopGlobal, flagStarted, stopPc, pumpVars,
                   subVars>>

\* world.event: the stopGlobal case is chosen, the event is dropped
ClientEventStopped ==
    /\ Alive
    /\ cpc = "event"
    /\ EventStopped
    /\ Handed(0)
    /\ UNCHANGED <<gridVars, cwVars, appVars, entVars, pg, mainClosed, stopGlobal, flagStarted, stopPc, pumpVars,
                   subVars>>

\* world.event: the send case is chosen while chMain is closed
ClientEventSendClosed ==
    /\ Alive
    /\ cpc = "event"
    /\ EventSendClosed
    /\ call' = [call EXCEPT !.todo = Tail(@), !.handed = Append(@, Head(call.todo))]
    /\ cpc' = "panicked"
    /\ UNCHANGED <<gridVars, cwVars, appVars, entVars, pg, mainClosed, stopGlobal, flagStarted, stopPc, pumpVars,
                   subVars>>

ClientReturn ==
    /\ Alive
    /\ cpc = "returned"
    /\ cpc' = "idle"
    /\ call' = NoCall
    /\ UNCHANGED <<gridVars, cwVars, appVars, entVars, pg, worldVars, pumpVars, subVars, panics>>

(***************************************************************************)
(* world.start: returns at once unless flagStarted is already set;         *)
(* otherwise sets the flag and launches the pump goroutine.                *)
(***************************************************************************)
StartLaunches(started) == started

ClientStart ==
    /\ Alive
    /\ cpc = "idle"
    /\ IF StartLaunches(flagStarted)
       THEN /\ flagStarted' = TRUE
            /\ pumpPc' = "recv"
       ELSE UNCHANGED <<flagStarted, pumpPc>>
    /\ call' = [NoCall EXCEPT !.op = "start"]
    /\ cpc' = "returned"
    /\ UNCHANGED <<gridVars, cwVars, appVars, entVars, pg, chMain, mainClosed, stopGlobal, nextId, stopPc, pumpEv,
                   pumpIdx, subVars, panics>>

(***************************************************************************)
(* world.stop, statement by statement:                                     *)
(*   close(w.stopGlobal); close(w.chMain);                                 *)
(*   Lock; close every proxy channel; w.chsProxy = w.chsProxy[:0]; Unlock  *)
(***************************************************************************)
StopCloseGlobal ==
    /\ Alive
    /\ stopPc = "none"
    /\ stopGlobal' = TRUE
    /\ stopPc' = "closeMain"
    /\ UNCHANGED <<gridVars, cwVars, appVars, entVars, pg, chMain, mainClosed, flagStarted, nextId, pumpVars,
                   subVars, callVars, panics>>

StopCloseMain ==
    /\ Alive
    /\ stopPc = "closeMain"
    /\ mainClosed' = TRUE
    /\ stopPc' = "closeProxies"
    /\ UNCHANGED <<gridVars, cwVars, appVars, entVars, pg, chMain, stopGlobal, flagStarted, nextId, pumpVars,
                   subVars, callVars, panics>>

StopCloseProxies ==
    /\ Alive
    /\ stopPc = "closeProxies"
    /\ muxW = "none" /\ muxR = {}
    /\ proxyCloses' = [s \in Subs |->
                         IF s \in SeqToSet(chsProxy) THEN proxyCloses[s] + 1
                         ELSE proxyCloses[s]]
    /\ panics' = IF \E s \in SeqToSet(chsProxy) : proxyCloses[s] > 0
                 THEN panics \cup {"close of closed proxy"} ELSE panics
    /\ chsProxy' = <<>>
    /\ stopPc' = "done"
    /\ UNCHANGED <<gridVars, cwVars, appVars, entVars, pg, chMain, mainClosed, stopGlobal, flagStarted, nextId,
                   pumpVars, muxW, muxR, proxy, out, outClosed, stopCh, subPc, subEv,
                   delivered, callVars>>

ClientCalls ==
    \/ ClientObjectExists
    \/ ClientLocationExists
    \/ ClientEntityExists
    \/ ClientGetObjectByLocation
    \/ ClientGetObjectByDot
    \/ ClientGetEntityByDot
    \/ ClientGetObjectsByDots
    \/ ClientCreateObject
    \/ ClientCreateObjectAvailableDots
    \/ ClientDeleteObject
    \/ ClientUpdateObject
    \/ ClientUpdateObjectAvailableDots
    \/ ClientCreateObjectRandomDot
    \/ ClientCreateObjectRandomRect
    \/ ClientNavigate
    \/ ClientSize
    \/ ClientWidth
    \/ ClientHeight
    \/ ClientStart
    \/ ClientReturn

(***************************************************************************)
(* SpecRunning: a World as newWorld constructs it, used through its        *)
(* interface and started, never stopped.  No subscriber is attached.       *)
(***************************************************************************)
NextRunning ==
    \/ ClientCalls
    \/ ClientEventSend

SpecRunning == Init /\ [][NextRunning]_vars

(***************************************************************************)
(* Spec: the same World with stop() running concurrently with the calls.   *)
(***************************************************************************)
Next ==
    \/ ClientCalls
    \/ ClientEventSend
    \/ ClientEventStopped
    \/ ClientEventSendClosed
    \/ StopCloseGlobal
    \/ StopCloseMain
    \/ StopCloseProxies

Spec == Init /\ [][Next]_vars

(***************************************************************************)
(* The pump: the goroutine start() launches.                               *)
(*   for { select { case event := <-w.chMain: w.broadcast(event)           *)
(*                  case <-w.stopGlobal: return } }                        *)
(***************************************************************************)
PumpRecvEvent ==
    /\ Alive
    /\ pumpPc = "recv"
    /\ chMain # <<>>
    /\ pumpEv' = Head(chMain)
    /\ chMain' = Tail(chMain)
    /\ pumpPc' = "rlock"
    /\ UNCHANGED <<gridVars, cwVars, appVars, entVars, pg, mainClosed, stopGlobal, flagStarted, nextId, stopPc, pumpIdx,
                   subVars, callVars, panics>>

\* a receive on the closed, drained chMain yields the zero Event
PumpRecvClosed ==
    /\ Alive
    /\ pumpPc = "recv"
    /\ chMain = <<>> /\ mainClosed
    /\ pumpEv' = ZeroEvent
    /\ pumpPc' = "rlock"
    /\ UNCHANGED <<gridVars, cwVars, appVars, entVars, pg, worldVars, pumpIdx, subVars, callVars, panics>>

PumpStopped ==
    /\ Alive
    /\ pumpPc = "recv"
    /\ stopGlobal
    /\ pumpPc' = "done"
    /\ UNCHANGED <<gridVars, cwVars, appVars, entVars, pg, worldVars, pumpEv, pumpIdx, subVars, callVars, panics>>

\* world.broadcast: w.chsProxyMux.RLock()
BroadcastRLock ==
    /\ Alive
    /\ pumpPc = "rlock"
    /\ muxW = "none"
    /\ muxR' = muxR \cup {"pump"}
    /\ pumpIdx' = 1
    /\ pumpPc' = "bcast"
    /\ UNCHANGED <<gridVars, cwVars, appVars, entVars, pg, worldVars, pumpEv, chsProxy, muxW, proxy, proxyCloses, out,
                   outClosed, stopCh, subPc, subEv, delivered, callVars, panics>>

\* world.broadcast: select { case chProxy <- event: ... }, the send proceeds
BroadcastSend ==
    /\ Alive
    /\ pumpPc = "bcast"
    /\ pumpIdx <= Len(chsProxy)
    /\ LET s == chsProxy[pumpIdx]
       IN  /\ proxyCloses[s] = 0
           /\ Len(proxy[s]) < ProxyBufferSize
           /\ proxy' = [proxy EXCEPT ![s] = Append(@, pumpEv)]
    /\ pumpIdx' = pumpIdx + 1
    /\ UNCHANGED <<gridVars, cwVars, appVars, entVars, pg, worldVars, pumpPc, pumpEv, chsProxy, muxW, muxR, proxyCloses,
                   out, outClosed, stopCh, subPc, subEv, delivered, callVars, panics>>

\* world.broadcast: the send case is chosen on a closed proxy channel
BroadcastSendClosed ==
    /\ Alive
    /\ pumpPc = "bcast"
    /\ pumpIdx <= Len(chsProxy)
    /\ proxyCloses[chsProxy[pumpIdx]] > 0
    /\ panics' = panics \cup {"send on closed proxy"}
    /\ UNCHANGED <<gridVars, cwVars, appVars, entVars, pg, worldVars, pumpVars, subVars, callVars>>

\* world.broadcast: select { ... case <-w.stopGlobal: }, the event is skipped
BroadcastSkip ==
    /\ Alive
    /\ pumpPc = "bcast"
    /\ pumpIdx <= Len(chsProxy)
    /\ stopGlobal
    /\ pumpIdx' = pumpIdx + 1
    /\ UNCHANGED <<gridVars, cwVars, appVars, entVars, pg, worldVars, pumpPc, pumpEv, subVars, callVars, panics>>

\* world.broadcast: end of the range loop, deferred RUnlock
BroadcastRUnlock ==
    /\ Alive
    /\ pumpPc = "bcast"
    /\ pumpIdx > Len(chsProxy)
    /\ muxR' = muxR \ {"pump"}
    /\ pumpPc' = "recv"
    /\ pumpEv' = ZeroEvent
    /\ pumpIdx' = 0
    /\ UNCHANGED <<gridVars, cwVars, appVars, entVars, pg, worldVars, chsProxy, muxW, proxy, proxyCloses, out,
                   outClosed, stopCh, subPc, subEv, delivered, callVars, panics>>

PumpNext ==
    \/ PumpRecvEvent
    \/ PumpRecvClosed
    \/ PumpStopped
    \/ BroadcastRLock
    \/ BroadcastSend
    \/ BroadcastSkip
    \/ BroadcastRUnlock

(***************************************************************************)
(* A subscriber: Events(stop) registers a proxy channel and launches the   *)
(* goroutine that moves events from the proxy channel to the output        *)
(* channel with sendEvent.  The consumer receives from the output channel. *)
(***************************************************************************)
MuxFree == muxW = "none" /\ muxR = {}

RemoveAt(q, i) == SubSeq(q, 1, i - 1) \o SubSeq(q, i + 1, Len(q))

IndexOf(q, x) == CHOOSE i \in 1 .. Len(q) : q[i] = x

\* Events: createChanProxy appends the proxy channel under the write lock
Events(s) ==
    /\ Alive
    /\ subPc[s] = "none"
    /\ MuxFree
    /\ chsProxy' = Append(chsProxy, s)
    /\ subPc' = [subPc EXCEPT ![s] = "loop"]
    /\ UNCHANGED <<gridVars, cwVars, appVars, entVars, pg, worldVars, pumpVars, muxW, muxR, proxy, proxyCloses, out,
                   outClosed, stopCh, subEv, delivered, callVars, panics>>

\* the goroutine's select: case <-stop
SubStop(s) ==
    /\ Alive
    /\ subPc[s] = "loop"
    /\ stopCh[s]
    /\ subPc' = [subPc EXCEPT ![s] = "unreg"]
    /\ UNCHANGED <<gridVars, cwVars, appVars, entVars, pg, worldVars, pumpVars, chsProxy, muxW, muxR, proxy, proxyCloses,
                   out, outClosed, stopCh, subEv, delivered, callVars, panics>>

\* the goroutine's select: case <-w.stopGlobal
SubStopGlobal(s) ==
    /\ Alive
    /\ subPc[s] = "loop"
    /\ stopGlobal
    /\ subPc' = [subPc EXCEPT ![s] = "unreg"]
    /\ UNCHANGED <<gridVars, cwVars, appVars, entVars, pg, worldVars, pumpVars, chsProxy, muxW, muxR, proxy, proxyCloses,
                   out, outClosed, stopCh, subEv, delivered, callVars, panics>>

\* receiving without taking the event off the proxy channel
SubRecv_Peek(s) ==
    /\ Alive
    /\ subPc[s] = "loop"
    /\ proxy[s] # <<>>
    /\ subEv' = [subEv EXCEPT ![s] = Head(proxy[s])]
    /\ subPc' = [subPc EXCEPT ![s] = "send"]
    /\ UNCHANGED <<gridVars, cwVars, appVars, entVars, pg, worldVars, pumpVars, chsProxy, muxW, muxR, proxy, proxyCloses,
                   out, outClosed, stopCh, delivered, callVars, panics>>

\* the goroutine's select: case event := <-chProxy
SubRecv(s) ==
    /\ Alive
    /\ subPc[s] = "loop"
    /\ proxy[s] # <<>>
    /\ subEv' = [subEv EXCEPT ![s] = Head(proxy[s])]
    /\ proxy' = [proxy EXCEPT ![s] = Tail(@)]
    /\ subPc' = [subPc EXCEPT ![s] = "send"]
    /\ UNCHANGED <<gridVars, cwVars, appVars, entVars, pg, worldVars, pumpVars, chsProxy, muxW, muxR, proxyCloses, out,
                   outClosed, stopCh, delivered, callVars, panics>>

\* the same case on the closed, drained proxy channel: the zero Event
SubRecvClosed(s) ==
    /\ Alive
    /\ subPc[s] = "loop"
    /\ proxy[s] = <<>> /\ proxyCloses[s] > 0
    /\ subEv' = [subEv EXCEPT ![s] = ZeroEvent]
    /\ subPc' = [subPc EXCEPT ![s] = "send"]
    /\ UNCHANGED <<gridVars, cwVars, appVars, entVars, pg, worldVars, pumpVars, chsProxy, muxW, muxR, proxy, proxyCloses,
                   out, outClosed, stopCh, delivered, callVars, panics>>

\* sendEvent is at its select: "send" in a pass that follows no receive of
\* this call, "resend" in the pass that follows the receive '<-ch'
SendEventSelect == {"send", "resend"}

SendEventReturns(s) ==
    /\ subPc' = [subPc EXCEPT ![s] = "loop"]
    /\ subEv' = [subEv EXCEPT ![s] = ZeroEvent]

\* sendEvent: case ch <- event
SendEventSend(s) ==
    /\ Alive
    /\ subPc[s] \in SendEventSelect
    /\ Len(out[s]) < OutBufferSize
    /\ out' = [out EXCEPT ![s] = Append(@, subEv[s])]
    /\ SendEventReturns(s)
    /\ UNCHANGED <<gridVars, cwVars, appVars, entVars, pg, worldVars, pumpVars, chsProxy, muxW, muxR, proxy, proxyCloses,
                   outClosed, stopCh, delivered, callVars, panics>>

\* sendEvent: case <-w.stopGlobal, case <-stop
SendEventStopped(s) ==
    /\ Alive
    /\ subPc[s] \in SendEventSelect
    /\ stopGlobal \/ stopCh[s]
    /\ SendEventReturns(s)
    /\ UNCHANGED <<gridVars, cwVars, appVars, entVars, pg, worldVars, pumpVars, chsProxy, muxW, muxR, proxy, proxyCloses,
                   out, outClosed, stopCh, delivered, callVars, panics>>

\* sendEvent: case <-timer.C; the timer may have fired at any pass of the loop
SendEventTimeout(s) ==
    /\ Alive
    /\ subPc[s] \in SendEventSelect
    /\ SendEventReturns(s)
    /\ UNCHANGED <<gridVars, cwVars, appVars, entVars, pg, worldVars, pumpVars, chsProxy, muxW, muxR, proxy, proxyCloses,
                   out, outClosed, stopCh, delivered, callVars, panics>>

\* sendEvent: default, taken when no case is ready
SendEventDefault(s) ==
    /\ Alive
    /\ subPc[s] \in SendEventSelect
    /\ Len(out[s]) >= OutBufferSize
    /\ ~stopGlobal /\ ~stopCh[s]
    /\ subPc' = [subPc EXCEPT ![s] = "lencheck"]
    /\ UNCHANGED <<gridVars, cwVars, appVars, entVars, pg, worldVars, pumpVars, chsProxy, muxW, muxR, proxy, proxyCloses,
                   out, outClosed, stopCh, subEv, delivered, callVars, panics>>

\* sendEvent: if len(ch) == cap(ch)
SendEventLenCheck(s) ==
    /\ Alive
    /\ subPc[s] = "lencheck"
    /\ subPc' = [subPc EXCEPT ![s] = IF Len(out[s]) = OutBufferSize THEN "drop" ELSE "send"]
    /\ UNCHANGED <<gridVars, cwVars, appVars, entVars, pg, worldVars, pumpVars, chsProxy, muxW, muxR, proxy, proxyCloses,
                   out, outClosed, stopCh, subEv, delivered, callVars, panics>>

\* a receive that takes the newest element of the queue
SendEventDrop_Newest(s) ==
    /\ Alive
    /\ subPc[s] = "drop"
    /\ out[s] # <<>>
    /\ out' = [out EXCEPT ![s] = SubSeq(@, 1, Len(@) - 1)]
    /\ subPc' = [subPc EXCEPT ![s] = "resend"]
    /\ UNCHANGED <<gridVars, cwVars, appVars, entVars, pg, worldVars, pumpVars, chsProxy, muxW, muxR, proxy, proxyCloses,
                   outClosed, stopCh, subEv, delivered, callVars, panics>>

\* sendEvent: <-ch, a plain receive that waits for an element
SendEventDrop(s) ==
    /\ Alive
    /\ subPc[s] = "drop"
    /\ out[s] # <<>>
    /\ out' = [out EXCEPT ![s] = Tail(@)]
    /\ subPc' = [subPc EXCEPT ![s] = "resend"]
    /\ UNCHANGED <<gridVars, cwVars, appVars, entVars, pg, worldVars, pumpVars, chsProxy, muxW, muxR, proxy, proxyCloses,
                   outClosed, stopCh, subEv, delivered, callVars, panics>>

\* deferred w.deleteChanProxy(chProxy): under the write lock remove the
\* channel from chsProxy and close it, when it is still there
DeleteChanProxy(s) ==
    /\ Alive
    /\ subPc[s] = "unreg"
    /\ MuxFree
    /\ IF s \in SeqToSet(chsProxy)
       THEN /\ chsProxy' = RemoveAt(chsProxy, IndexOf(chsProxy, s))
            /\ proxyCloses' = [proxyCloses EXCEPT ![s] = @ + 1]
            /\ panics' = IF proxyCloses[s] > 0 THEN panics \cup {"close of closed proxy"}
                         ELSE panics
       ELSE UNCHANGED <<chsProxy, proxyCloses, panics>>
    /\ subPc' = [subPc EXCEPT ![s] = "closeOut"]
    /\ UNCHANGED <<gridVars, cwVars, appVars, entVars, pg, worldVars, pumpVars, muxW, muxR, proxy, out, outClosed,
                   stopCh, subEv, delivered, callVars>>

\* deferred close(chOut)
CloseOut(s) ==
    /\ Alive
    /\ subPc[s] = "closeOut"
    /\ outClosed' = [outClosed EXCEPT ![s] = TRUE]
    /\ subPc' = [subPc EXCEPT ![s] = "done"]
    /\ UNCHANGED <<gridVars, cwVars, appVars, entVars, pg, worldVars, pumpVars, chsProxy, muxW, muxR, proxy, proxyCloses,
                   out, stopCh, subEv, delivered, callVars, panics>>

\* the consumer receives one event from the output stream
ConsumerRecv(s) ==
    /\ Alive
    /\ out[s] # <<>>
    /\ Len(delivered[s]) <= MaxEvents
    /\ delivered' = [delivered EXCEPT ![s] = Append(@, Head(out[s]))]
    /\ out' = [out EXCEPT ![s] = Tail(@)]
    /\ UNCHANGED <<gridVars, cwVars, appVars, entVars, pg, worldVars, pumpVars, chsProxy, muxW, muxR, proxy, proxyCloses,
                   outClosed, stopCh, subPc, subEv, callVars, panics>>

\* the owner of the subscription closes the stop channel it gave to Events
CloseStop(s) ==
    /\ Alive
    /\ subPc[s] # "none"
    /\ ~stopCh[s]
    /\ stopCh' = [stopCh EXCEPT ![s] = TRUE]
    /\ UNCHANGED <<gridVars, cwVars, appVars, entVars, pg, worldVars, pumpVars, chsProxy, muxW, muxR, proxy, proxyCloses,
                   out, outClosed, subPc, subEv, delivered, callVars, panics>>

\* the publishing calls: DeleteObject of an object that is not registered,
\* which publishes Error(err); at most MaxEvents events are published
Publish ==
    /\ nextId <= MaxEvents
    /\ LET o == "a"
           loc == <<<<0, 0>>>>
       IN  ClientCall("DeleteObject", o, PgCanDelete(pg, o, loc), <<>>,
                      WorldDeleteObject(pg, o, loc))

InitPumping ==
    /\ InitWorld(Objects, WorldW, 1, TRUE)
    /\ pumpPc = "recv"

(***************************************************************************)
(* SpecSub: the life of one subscription.  The World is taken with its     *)
(* pump goroutine running, the state start() is written to produce.  A     *)
(* caller publishes, the subscriber's consumer reads the output stream,    *)
(* its owner closes the stop channel, stop() runs concurrently.            *)
(***************************************************************************)
TheSub == "sub1"

NextSub ==
    \/ Publish
    \/ ClientEventSend
    \/ ClientEventStopped
    \/ ClientEventSendClosed
    \/ ClientReturn
    \/ PumpNext
    \/ Events(TheSub)
    \/ SubStop(TheSub)
    \/ SubStopGlobal(TheSub)
    \/ SubRecv(TheSub)
    \/ SubRecvClosed(TheSub)
    \/ SendEventSend(TheSub)
    \/ SendEventStopped(TheSub)
    \/ SendEventTimeout(TheSub)
    \/ SendEventDefault(TheSub)
    \/ SendEventLenCheck(TheSub)
    \/ SendEventDrop(TheSub)
    \/ DeleteChanProxy(TheSub)
    \/ CloseOut(TheSub)
    \/ ConsumerRecv(TheSub)
    \/ CloseStop(TheSub)
    \/ StopCloseGlobal
    \/ StopCloseMain
    \/ StopCloseProxies

SpecSub == InitPumping /\ [][NextSub]_vars

(***************************************************************************)
(* SpecFan: the fan-out to two subscribers on a running World.  The        *)
(* consumer of SlowSub never reads its output stream, the consumer of      *)
(* FastSub does.                                                           *)
(***************************************************************************)
SlowSub == "sub1"
FastSub == "sub2"

NextFan ==
    \/ Publish
    \/ ClientEventSend
    \/ ClientReturn
    \/ PumpRecvEvent
    \/ BroadcastRLock
    \/ BroadcastSend
    \/ BroadcastRUnlock
    \/ \E s \in Subs : Events(s)
    \/ \E s \in Subs : SubRecv(s)
    \/ \E s \in Subs : SendEventSend(s)
    \/ \E s \in Subs : SendEventTimeout(s)
    \/ \E s \in Subs : SendEventDefault(s)
    \/ \E s \in Subs : SendEventLenCheck(s)
    \/ \E s \in Subs : SendEventDrop(s)
    \/ ConsumerRecv(FastSub)

SpecFan == InitPumping /\ [][NextFan]_vars

(***************************************************************************)
(* Properties of the World interface.                                      *)
(***************************************************************************)
Mutators == {"CreateObject", "CreateObjectAvailableDots", "CreateObjectRandomDot",
             "CreateObjectRandomRect", "DeleteObject", "UpdateObject",
             "UpdateObjectAvailableDots"}

SuccessType(op) ==
    CASE op \in {"UpdateObject", "UpdateObjectAvailableDots"} -> EventTypeObjectUpdate
      [] op = "DeleteObject" -> EventTypeObjectDelete
      [] OTHER -> EventTypeObjectCreate

\* C1: every call of a mutating World operation hands exactly one event to
\* world.event, never two and never none: ObjectCreate / ObjectDelete /
\* ObjectUpdate carrying the object when the Playground operation succeeded,
\* Error carrying the error when it failed; the call returns the outcome of
\* the Playground operation, and unless the World is being stopped the event
\* has entered the main queue when the call returns.
C1_OneEventPerMutation ==
    call.op \in Mutators =>
        /\ Len(call.handed) + Len(call.todo) = 1
        /\ \A i \in 1 .. Len(call.handed) :
              call.handed[i] = IF call.pgOk THEN Event(SuccessType(call.op), call.obj)
                               ELSE Event(EventTypeError, ErrPayload)
        /\ cpc = "returned" =>
              /\ Len(call.handed) = 1
              /\ call.retOk = call.pgOk
              /\ call.enq = 1 \/ stopGlobal

C1_Witness ==
    /\ cpc = "returned"
    /\ call.op = "UpdateObject"
    /\ call.pgOk
    /\ call.handed = <<Event(EventTypeObjectUpdate, call.obj)>>
    /\ call.enq = 1
    /\ Len(chMain) = MainBufferSize

\* C2: a mutating call never blocks on event publication: whenever a call is
\* inside world.event one of the select's cases can proceed, so with the
\* main queue full the event is dropped and the call returns.
C2_PublishNeverBlocks ==
    cpc = "event" => (EventSendReady \/ mainClosed \/ stopGlobal)

\* C3: once start() has been called the pump goroutine is running.
C3_StartLaunchesPump ==
    (cpc = "returned" /\ call.op = "start") => pumpPc # "none"

\* C6: a publish during or after stop() returns normally: world.event never
\* attempts a send on the closed main queue.
C6_PublishAfterStopReturns ==
    /\ cpc # "panicked"
    /\ "send on closed chMain" \notin panics

Lookups == {"GetObjectByLocation", "GetObjectByDot", "GetEntityByDot", "GetObjectsByDots"}

SingleLookups == {"GetObjectByLocation", "GetObjectByDot", "GetEntityByDot"}

NonPublishing == {"ObjectExists", "LocationExists", "EntityExists", "Navigate", "Size",
                  "Width", "Height"}

\* C10: a lookup hands ObjectChecked to world.event only for objects it
\* returns: the single-object lookups exactly one when they return an object
\* and none when they return nothing, GetObjectsByDots exactly one per
\* returned object; ObjectExists, LocationExists, EntityExists, Navigate,
\* Size, Width and Height hand over no event.
C10_LookupsPublishChecked ==
    /\ call.op \in Lookups =>
          /\ call.handed \o call.todo = CheckedEvents(call.retObjs)
          /\ call.retObjs = call.pgObjs
          /\ call.op \in SingleLookups => Len(call.retObjs) <= 1
          /\ Distinct(call.retObjs)
    /\ call.op \in NonPublishing => (call.handed = <<>> /\ call.todo = <<>>)

C10_Witness ==
    /\ cpc = "returned"
    /\ call.op = "GetObjectsByDots"
    /\ Len(call.retObjs) = 2
    /\ Len(call.handed) = 2

(***************************************************************************)
(* The entities: a snake, a corpse and a mouse acting on the playground    *)
(* through the World.  A World call is one step: the method's critical     *)
(* section on the playground followed by its world.event, and it is taken  *)
(* when the event can be handed over.                                      *)
(***************************************************************************)
Reverse(loc) == [i \in 1 .. Len(loc) |-> loc[Len(loc) + 1 - i]]

Contains(loc, d) == d \in SeqToSet(loc)

Delete(loc, d) == SelectSeqIn(loc, SeqToSet(loc) \ {d})

ReverseDirection(dir) ==
    CASE dir = "n" -> "s"
      [] dir = "s" -> "n"
      [] dir = "e" -> "w"
      [] dir = "w" -> "e"

\* the directions that lead from one cell to the neighbouring cell; more
\* than one where the torus is two cells around
CalculateDirection(from, to) == {dir \in Directions : Navigate(from, dir, 1) = to}

\* the events of a World call enter chMain
GridPublish(events) ==
    IF events = <<>> THEN UNCHANGED <<chMain, nextId, panics>>
    ELSE nextId <= GridEvents /\ EventSend(events[1])

GridCall(r) ==
    /\ Alive
    /\ pg' = r.pg
    /\ GridPublish(r.events)
    /\ UNCHANGED <<gridVars, cwVars, appVars, mainClosed, stopGlobal, flagStarted, stopPc, pumpVars, subVars,
                   callVars>>

\* snake.go: snakeCommands, the directions by command
snakeCommands == [cmd \in {"n", "e", "s", "w"} |-> cmd]

ValidDirection(dir) == dir \in Directions

\* comparing the new direction itself, not its reverse, with the direction
\* of the last step
setMovementDirection_NoReverse(nextDir, dots) ==
    IF ValidDirection(nextDir)
    THEN LET currDirs == CalculateDirection(dots[2], dots[1])
         IN  IF currDirs = {} THEN {nextDir}
             ELSE {IF nextDir = currDir THEN "err" ELSE nextDir : currDir \in currDirs}
    ELSE {"err"}

\* Snake.setMovementDirection up to the decision: the direction to set, or
\* "err"; currDir is what CalculateDirection answers for dots[1], dots[0]
setMovementDirection(nextDir, dots) ==
    IF ValidDirection(nextDir)
    THEN LET currDirs == CalculateDirection(dots[2], dots[1])
         IN  IF currDirs = {} THEN {nextDir}
             ELSE {IF ReverseDirection(nextDir) = currDir THEN "err" ELSE nextDir :
                      currDir \in currDirs}
    ELSE {"err"}

\* NewSnake reversing the rectangle for north and west
NewSnake_ReverseNorthWest(s) ==
    /\ snake[s].pc = "none"
    /\ \E dir \in Directions :
        LET rw == IF dir \in {"n", "s"} THEN 1 ELSE snakeStartLength
            rh == IF dir \in {"n", "s"} THEN snakeStartLength ELSE 1
        IN  \E loc \in RandomRectChoices(pg, s, rw, rh) :
                LET r == WorldCreateObjectRandomRect(pg, s, loc)
                IN  /\ GridCall(r)
                    /\ snake' = [snake EXCEPT ![s] =
                                    IF r.retOk
                                    THEN [NoSnake EXCEPT
                                            !.pc = "created",
                                            !.dots = IF dir \in {"n", "w"} THEN Reverse(r.loc)
                                                     ELSE r.loc,
                                            !.length = snakeStartLength,
                                            !.direction = dir]
                                    ELSE [NoSnake EXCEPT !.pc = "refused"]]
    /\ UNCHANGED corpse

NewSnake(s) ==
    /\ snake[s].pc = "none"
    /\ \E dir \in Directions :
        LET rw == IF dir \in {"n", "s"} THEN 1 ELSE snakeStartLength
            rh == IF dir \in {"n", "s"} THEN snakeStartLength ELSE 1
        IN  \E loc \in RandomRectChoices(pg, s, rw, rh) :
                LET r == WorldCreateObjectRandomRect(pg, s, loc)
                IN  /\ GridCall(r)
                    /\ snake' = [snake EXCEPT ![s] =
                                    IF r.retOk
                                    THEN [NoSnake EXCEPT
                                            !.pc = "created",
                                            !.dots = IF dir \in {"s", "e"} THEN Reverse(r.loc)
                                                     ELSE r.loc,
                                            !.length = snakeStartLength,
                                            !.direction = dir]
                                    ELSE [NoSnake EXCEPT !.pc = "refused"]]
    /\ UNCHANGED corpse

\* Snake.Run: the goroutine is launched
Run(s) ==
    /\ Alive
    /\ snake[s].pc = "created"
    /\ snake' = [snake EXCEPT ![s].pc = "loop"]
    /\ UNCHANGED <<gridVars, cwVars, appVars, corpse, pg, worldVars, pumpVars, subVars, callVars, panics>>

\* Snake.Run: case <-stop
RunStopped(s) ==
    /\ Alive
    /\ snake[s].pc = "loop"
    /\ snake' = [snake EXCEPT ![s].pc = "stopped"]
    /\ UNCHANGED <<gridVars, cwVars, appVars, corpse, pg, worldVars, pumpVars, subVars, callVars, panics>>

\* the snake dying only of the cells of other objects
moveGetObjectByDot_OthersOnly(s) ==
    /\ snake[s].pc = "loop"
    /\ LET dot == Navigate(snake[s].dots[1], snake[s].direction, 1)
           r == WorldGetObjectByDot(pg, dot)
       IN  /\ GridCall(r)
           /\ snake' = [snake EXCEPT ![s].dot = dot,
                                     ![s].heading = snake[s].direction,
                                     ![s].pc = IF r.retObjs \notin {<<>>, <<s>>} THEN "die"
                                               ELSE "update"]
    /\ UNCHANGED corpse

\* Snake.move on a tick, up to the collision test; heading is the direction
\* getNextHeadDot read
moveGetObjectByDot(s) ==
    /\ snake[s].pc = "loop"
    /\ LET dot == Navigate(snake[s].dots[1], snake[s].direction, 1)
           r == WorldGetObjectByDot(pg, dot)
       IN  /\ GridCall(r)
           /\ snake' = [snake EXCEPT ![s].dot = dot,
                                     ![s].heading = snake[s].direction,
                                     ![s].pc = IF r.retObjs # <<>> THEN "die" ELSE "update"]
    /\ UNCHANGED corpse

\* Snake.Die, after which move returns an error and the goroutine ends
Die(s) ==
    /\ snake[s].pc = "die"
    /\ GridCall(WorldDeleteObject(pg, s, snake[s].dots))
    /\ snake' = [snake EXCEPT ![s].pc = "dead"]
    /\ UNCHANGED corpse

\* the move keeping the tail whatever the length
moveUpdateObject_KeepTail(s) ==
    /\ snake[s].pc = "update"
    /\ LET tmpDots == <<snake[s].dot>> \o snake[s].dots
           r == WorldUpdateObject(pg, s, snake[s].dots, tmpDots)
       IN  /\ GridCall(r)
           /\ snake' = IF r.retOk
                       THEN [snake EXCEPT ![s].dots = tmpDots, ![s].pc = "loop",
                                          ![s].step = snake[s].heading]
                       ELSE [snake EXCEPT ![s].pc = "failed"]
    /\ UNCHANGED corpse

\* Snake.move, from tmpDots to relocate; on an update error move returns
\* the error and the goroutine ends; step is the direction of the move
\* committed last
moveUpdateObject(s) ==
    /\ snake[s].pc = "update"
    /\ LET grown == <<snake[s].dot>> \o snake[s].dots
           tmpDots == IF snake[s].length < Len(grown) THEN SubSeq(grown, 1, Len(grown) - 1)
                      ELSE grown
           r == WorldUpdateObject(pg, s, snake[s].dots, tmpDots)
       IN  /\ GridCall(r)
           /\ snake' = IF r.retOk
                       THEN [snake EXCEPT ![s].dots = tmpDots, ![s].pc = "loop",
                                          ![s].step = snake[s].heading]
                       ELSE [snake EXCEPT ![s].pc = "failed"]
    /\ UNCHANGED corpse

SnakeExists(s) == snake[s].pc \in {"created", "loop", "die", "update"}

\* Snake.Command(cmd) up to the decision of setMovementDirection, which
\* reads s.dots without the lock
Command(s, cmd) ==
    /\ Alive
    /\ SnakeExists(s)
    /\ snake[s].cmdPc = "idle"
    /\ \E result \in (IF cmd \in DOMAIN snakeCommands
                      THEN setMovementDirection(snakeCommands[cmd], snake[s].dots)
                      ELSE {"err"}) :
        snake' = [snake EXCEPT ![s].cmd = cmd,
                               ![s].cmdPc = IF result = "err" THEN "err" ELSE "set"]
    /\ UNCHANGED <<gridVars, cwVars, appVars, corpse, pg, worldVars, pumpVars, subVars, callVars, panics>>

\* Snake.setMovementDirection: s.setDirection(nextDir)
setDirection(s) ==
    /\ Alive
    /\ snake[s].cmdPc = "set"
    /\ snake' = [snake EXCEPT ![s].direction = snakeCommands[snake[s].cmd],
                              ![s].cmdPc = "idle", ![s].cmd = ""]
    /\ UNCHANGED <<gridVars, cwVars, appVars, corpse, pg, worldVars, pumpVars, subVars, callVars, panics>>

\* Snake.Command returns an error
CommandError(s) ==
    /\ Alive
    /\ snake[s].cmdPc = "err"
    /\ snake' = [snake EXCEPT ![s].cmdPc = "idle", ![s].cmd = ""]
    /\ UNCHANGED <<gridVars, cwVars, appVars, corpse, pg, worldVars, pumpVars, subVars, callVars, panics>>

\* Snake.feed: s.length is a uint16
feed(s, f) ==
    /\ Alive
    /\ SnakeExists(s)
    /\ snake' = [snake EXCEPT ![s].length = IF f > 0 THEN (@ + f) % 65536 ELSE @]
    /\ UNCHANGED <<gridVars, cwVars, appVars, corpse, pg, worldVars, pumpVars, subVars, callVars, panics>>

\* the locations a corpse is created over: one cell or two cells in a row
CorpseLocations ==
    {RectLocation(x, y, rw, 1) : x \in 0 .. width - 1, y \in 0 .. height - 1, rw \in 1 .. 2}
        \cap LocationsOver(Dots)

CreateCorpse ==
    /\ corpse.pc = "none"
    /\ \E location \in CorpseLocations :
        LET r == WorldCreateObjectAvailableDots(pg, "corpse", location)
        IN  /\ GridCall(r)
            /\ corpse' = IF Len(r.loc) > 0
                         THEN [NoCorpse EXCEPT !.pc = "lying", !.location = r.loc]
                         ELSE NoCorpse
    /\ UNCHANGED snake

\* Corpse.NutritionalValue(dot) up to the World call
NutritionalValue ==
    /\ corpse.pc \in {"lying", "done"}
    /\ ~corpse.nipping
    /\ \E dot \in Dots :
        /\ Contains(corpse.location, dot)
        /\ LET newDots == Delete(corpse.location, dot)
           IN  IF Len(corpse.location) > 0
               THEN /\ GridCall(WorldUpdateObjectAvailableDots(pg, "corpse",
                                                               corpse.location, newDots))
                    /\ corpse' = [corpse EXCEPT !.nipping = TRUE, !.newDots = newDots]
               ELSE /\ GridCall(WorldDeleteObject(pg, "corpse", corpse.location))
                    /\ corpse' = [corpse EXCEPT !.pc = "done"]
    /\ UNCHANGED snake

\* Corpse.NutritionalValue: c.location = newDots
NutritionalValueRelocate ==
    /\ Alive
    /\ corpse.nipping
    /\ corpse' = [corpse EXCEPT !.location = corpse.newDots, !.newDots = <<>>,
                                !.nipping = FALSE]
    /\ UNCHANGED <<gridVars, cwVars, appVars, snake, pg, worldVars, pumpVars, subVars, callVars, panics>>

\* Corpse.run: the timer fires
run ==
    /\ corpse.pc = "lying"
    /\ GridCall(WorldDeleteObject(pg, "corpse", corpse.location))
    /\ corpse' = [corpse EXCEPT !.pc = "done"]
    /\ UNCHANGED snake

NewMouse ==
    /\ ~PgObjectExists(pg, "mouse")
    /\ \E location \in RandomDotChoices(pg, "mouse") :
        GridCall(WorldCreateObjectRandomDot(pg, "mouse", location))
    /\ UNCHANGED entVars

TheSnake == "snake"

InitGrid ==
    /\ InitWorld(GridObjects, GridW, GridH, TRUE)
    /\ pumpPc = "recv"

(***************************************************************************)
(* SpecGrid: the entities on a running World without subscribers.          *)
(***************************************************************************)
NextGrid ==
    \/ NewSnake(TheSnake)
    \/ Run(TheSnake)
    \/ RunStopped(TheSnake)
    \/ moveGetObjectByDot(TheSnake)
    \/ Die(TheSnake)
    \/ moveUpdateObject(TheSnake)
    \/ Command(TheSnake, "n")
    \/ setDirection(TheSnake)
    \/ CommandError(TheSnake)
    \/ CreateCorpse
    \/ NutritionalValue
    \/ NutritionalValueRelocate
    \/ run
    \/ NewMouse
    \/ PumpRecvEvent
    \/ BroadcastRLock
    \/ BroadcastRUnlock

SpecGrid == InitGrid /\ [][NextGrid]_vars

CommandInputs == {"n", "e", "s", "w", "x"}

InitSnake ==
    /\ InitWorld({TheSnake}, GridW, GridW, TRUE)
    /\ pumpPc = "recv"

NextSnake ==
    \/ NewSnake(TheSnake)
    \/ Run(TheSnake)
    \/ RunStopped(TheSnake)
    \/ moveGetObjectByDot(TheSnake)
    \/ Die(TheSnake)
    \/ moveUpdateObject(TheSnake)
    \/ \E cmd \in CommandInputs : Command(TheSnake, cmd)
    \/ setDirection(TheSnake)
    \/ CommandError(TheSnake)
    \/ \E f \in {0, 1} : snake[TheSnake].length < MaxLength /\ feed(TheSnake, f)
    \/ PumpRecvEvent
    \/ BroadcastRLock
    \/ BroadcastRUnlock

SpecSnake == InitSnake /\ [][NextSnake]_vars

\* the claimed condition for accepting a command, on the snake's cells
NoTurnBack(cmd, cells) ==
    /\ cmd \in Directions
    /\ \A dir \in Directions :
        Navigate(cells[2], dir, 1) = cells[1] => ReverseDirection(cmd) # dir

FeedAmounts == {1, 127}

NextFeed ==
    \/ NewSnake(TheSnake)
    \/ \E f \in FeedAmounts : feed(TheSnake, f)

SpecFeed == InitSnake /\ [][NextFeed]_vars

Adjacent(d1, d2) == CalculateDirection(d1, d2) # {}

\* the cells are a simple 4-connected path on the torus
SimplePath(dots) ==
    /\ dots # <<>>
    /\ Distinct(dots)
    /\ \A i \in 1 .. Len(dots) - 1 : Adjacent(dots[i], dots[i + 1])

\* C13: a live snake's cells are a non-empty simple 4-connected path and
\* its length is at least the number of its cells.
C13_SimplePathWithinLength ==
    \A s \in Snakes :
        SnakeExists(s) => SimplePath(snake[s].dots) /\ snake[s].length >= Len(snake[s].dots)

\* the part of C13 that moves, commands and bounded feedings preserve
SnakeIsSimplePath ==
    \A s \in Snakes : SnakeExists(s) => SimplePath(snake[s].dots)

(***************************************************************************)
(* SpecDuel: two snakes spawned on one playground, each ticking on its own *)
(* goroutine.                                                              *)
(***************************************************************************)
InitDuel ==
    /\ InitWorld(Snakes, DuelW, DuelW, TRUE)
    /\ pumpPc = "recv"

NextDuel ==
    \/ \E s \in Snakes :
        \/ NewSnake(s)
        \/ Run(s)
        \/ moveGetObjectByDot(s)
        \/ Die(s)
        \/ moveUpdateObject(s)
    \/ PumpRecvEvent
    \/ BroadcastRLock
    \/ BroadcastRUnlock

SpecDuel == InitDuel /\ [][NextDuel]_vars

\* C14: of two snakes that tick towards the same cell, the one that comes
\* second, its run loop ended while the other snake's head is committed to
\* that cell, is deleted from the world.
C14_SecondCommitterDies ==
    \A s, t \in Snakes :
        (/\ s # t
         /\ snake[s].pc \in {"dead", "failed"}
         /\ snake[t].step # ""
         /\ snake[t].dots[1] = snake[s].dot)
            => ~PgObjectExists(pg, s)

\* C15: once a snake has died of an occupied cell ahead and its loop has
\* ended, it is deleted from the world and a corpse has been created on
\* cells the snake occupied.
C15_DeathLeavesCorpse ==
    \A s \in Snakes :
        snake[s].pc = "dead"
            => /\ ~PgObjectExists(pg, s)
               /\ corpse.pc # "none"
               /\ SeqToSet(corpse.location) \subseteq SeqToSet(snake[s].dots)

\* C16: when NutritionalValue has consumed the last cell of a corpse, no
\* cell is registered to the corpse any more and its timer goroutine has
\* ended.
C16_LastCellDeletesCorpse ==
    (corpse.pc # "none" /\ ~corpse.nipping /\ corpse.location = <<>>)
        => ~PgObjectExists(pg, "corpse") /\ corpse.pc = "done"

\* C17: once the timer of a corpse has fired, whatever NutritionalValue
\* calls came before it, no cell is registered to the corpse.
C17_ExpiredCorpseRemoved ==
    corpse.pc = "done" => ~PgObjectExists(pg, "corpse")

\* C12: whatever commands arrive between and during the ticks, no move is
\* committed in the direction opposite to the move committed before it
\* (the new head is never the cell behind the old head).
C12_NeverCommitsReverse ==
    [][\A s \in Snakes :
        (snake[s].pc = "update" /\ snake'[s].pc = "loop" /\ snake[s].step # "")
            => /\ snake'[s].step # ReverseDirection(snake[s].step)
               /\ snake'[s].dots[1] # snake[s].dots[2]]_vars

\* a command checked before a tick and applied after it turned the snake
\* back, with the head across the edge of the grid: the snake meets its own
\* body and dies
C12_Witness ==
    /\ snake[TheSnake].pc = "die"
    /\ snake[TheSnake].step # ""
    /\ snake[TheSnake].heading = ReverseDirection(snake[TheSnake].step)
    /\ snake[TheSnake].dot = snake[TheSnake].dots[2]
    /\ \E i \in 1 .. 2 : snake[TheSnake].dots[1][i] - snake[TheSnake].dots[2][i] \notin {-1, 0, 1}

(***************************************************************************)
(* ConnectionWorker: Start, the input pipeline read -> decode ->           *)
(* broadcastInputMessage -> input (one per subscriber) -> listener, and    *)
(* stopInputs.  Every goroutine but Start is given chStop, the channel     *)
(* read() closes when the transport fails.  A Lock/Unlock section of       *)
(* cw.chsInputMux is one step, taken when no read lock is held.            *)
(***************************************************************************)
nonWorkerVars == <<gridVars, entVars, pg, worldVars, pumpVars, subVars, callVars, appVars>>

InputMessage == "msg"

InputMessageTypeSnakeCommand == "snake_command"

InputMessageTypeBroadcast == "broadcast"

\* the messages a client sends, each named by its type; InputMessage has a
\* type no subscriber handles
InputMessages == {InputMessageTypeSnakeCommand, InputMessageTypeBroadcast, InputMessage}


Registered(s) == s \in SeqToSet(chsInput)

\* Start: if cw.flagStarted { return ErrStartConnectionWorker(...) }, a read
\* of the flag without a lock
StartCheck ==
    /\ Alive
    /\ startPc = "new"
    /\ startPc' = IF cwFlagStarted THEN "rejected" ELSE "checked"
    /\ UNCHANGED <<nonWorkerVars, listenVars, startVars, panics, cwStop, chStop, readPc, readCount,
                   chInputBytes, decodePc, chInputMessages, fanPc, fanIdx, fanMsg, chsInput,
                   chsInputMuxR, chProxy, chProxyCloses, inputPc, inputMsg, chout, listenPc>>

\* broadcast.BroadcastMessage(m) called by Start
StartBroadcast(c, m) == cwBroadcasts' = Append(cwBroadcasts, <<c, m>>)

\* Start from cw.flagStarted = true up to the first input(): the join
\* message is broadcast, then read(), decode() and broadcastInputMessage()
\* launch their goroutines
Start ==
    /\ Alive
    /\ startPc = "checked"
    /\ cwFlagStarted' = TRUE
    /\ StartBroadcast("call1", "user joined your game group")
    /\ pipelines' = pipelines + 1
    /\ startPc' = "input"
    /\ readPc' = "read"
    /\ decodePc' = "recv"
    /\ fanPc' = "recv"
    /\ UNCHANGED <<nonWorkerVars, listenVars, start2Pc, panics, cwStop, chStop, readCount, chInputBytes,
                   chInputMessages, fanIdx, fanMsg, chsInput, chsInputMuxR, chProxy,
                   chProxyCloses, inputPc, inputMsg, chout, listenPc>>

\* ConnectionWorker.input, called by Start: chProxy is appended under the
\* lock, the goroutine and the listener of its output are launched
input(s) ==
    /\ Alive
    /\ startPc = "input"
    /\ inputPc[s] = "none"
    /\ \A i \in 1 .. Len(InputSubsInOrder) :
        InputSubsInOrder[i] = s => \A j \in 1 .. i - 1 : inputPc[InputSubsInOrder[j]] # "none"
    /\ chsInputMuxR = 0
    /\ chsInput' = Append(chsInput, s)
    /\ inputPc' = [inputPc EXCEPT ![s] = "loop"]
    /\ listenPc' = [listenPc EXCEPT ![s] = "run"]
    /\ startPc' = IF \A t \in InputSubs \ {s} : inputPc[t] # "none" THEN "select" ELSE "input"
    /\ UNCHANGED <<nonWorkerVars, listenVars, startVars, panics, cwStop, chStop, readPc, readCount, chInputBytes,
                   decodePc, chInputMessages, fanPc, fanIdx, fanMsg, chsInputMuxR, chProxy,
                   chProxyCloses, inputMsg, chout>>

\* the stop channel given to Start is closed by its owner
CloseWorkerStop ==
    /\ Alive
    /\ ~cwStop
    /\ cwStop' = TRUE
    /\ UNCHANGED <<nonWorkerVars, listenVars, startVars, panics, chStop, startPc, readPc, readCount, chInputBytes,
                   decodePc, chInputMessages, fanPc, fanIdx, fanMsg, chsInput, chsInputMuxR,
                   chProxy, chProxyCloses, inputPc, inputMsg, chout, listenPc>>

\* Start: select { case <-chStop: case <-stop: }
StartSelect ==
    /\ Alive
    /\ startPc = "select"
    /\ chStop \/ cwStop
    /\ StartBroadcast("call1", "user left your game group")
    /\ startPc' = "stopInputs"
    /\ UNCHANGED <<nonWorkerVars, listenVars, cwFlagStarted, start2Pc, pipelines, panics, cwStop, chStop, readPc, readCount, chInputBytes,
                   decodePc, chInputMessages, fanPc, fanIdx, fanMsg, chsInput, chsInputMuxR,
                   chProxy, chProxyCloses, inputPc, inputMsg, chout, listenPc>>

\* ConnectionWorker.stopInputs, after which Start returns
stopInputs ==
    /\ Alive
    /\ startPc = "stopInputs"
    /\ chsInputMuxR = 0
    /\ chProxyCloses' = [s \in InputSubs |->
                            IF Registered(s) THEN chProxyCloses[s] + 1 ELSE chProxyCloses[s]]
    /\ panics' = IF \E s \in InputSubs : Registered(s) /\ chProxyCloses[s] > 0
                 THEN panics \cup {"chProxy: close of closed channel"}
                 ELSE panics
    /\ chsInput' = <<>>
    /\ startPc' = "returned"
    /\ UNCHANGED <<nonWorkerVars, listenVars, startVars, cwStop, chStop, readPc, readCount, chInputBytes, decodePc,
                   chInputMessages, fanPc, fanIdx, fanMsg, chsInputMuxR, chProxy, inputPc,
                   inputMsg, chout, listenPc>>

\* read(): conn.ReadMessage returns a text message
ReadMessage(m) ==
    /\ Alive
    /\ readPc = "read"
    /\ readCount < MaxInputs
    /\ readCount' = readCount + 1
    /\ readMsg' = m
    /\ readPc' = "send"
    /\ UNCHANGED <<nonWorkerVars, decodeMsg, listenMsg, chCommands, startVars, panics, cwStop, chStop, startPc, chInputBytes, decodePc,
                   chInputMessages, fanPc, fanIdx, fanMsg, chsInput, chsInputMuxR, chProxy,
                   chProxyCloses, inputPc, inputMsg, chout, listenPc>>

\* read(): chout <- data
ReadSend ==
    /\ Alive
    /\ readPc = "send"
    /\ Len(chInputBytes.buf) < ChanInputSize
    /\ chInputBytes' = [chInputBytes EXCEPT !.buf = Append(@, readMsg)]
    /\ readMsg' = ZeroInputMessage
    /\ readPc' = "read"
    /\ UNCHANGED <<nonWorkerVars, decodeMsg, listenMsg, chCommands, startVars, panics, cwStop, chStop, startPc, readCount, decodePc,
                   chInputMessages, fanPc, fanIdx, fanMsg, chsInput, chsInputMuxR, chProxy,
                   chProxyCloses, inputPc, inputMsg, chout, listenPc>>

\* read(): conn.ReadMessage returns an error; the deferred calls close
\* chstop and chout
ReadError ==
    /\ Alive
    /\ readPc = "read"
    /\ chStop' = TRUE
    /\ chInputBytes' = [chInputBytes EXCEPT !.closed = TRUE]
    /\ readPc' = "done"
    /\ UNCHANGED <<nonWorkerVars, listenVars, startVars, panics, cwStop, startPc, readCount, decodePc,
                   chInputMessages, fanPc, fanIdx, fanMsg, chsInput, chsInputMuxR, chProxy,
                   chProxyCloses, inputPc, inputMsg, chout, listenPc>>

\* decode(): case data := <-chin, decoded without error (what is received
\* from the closed channel does not decode and is only logged)
DecodeRecv ==
    /\ Alive
    /\ decodePc = "recv"
    /\ chInputBytes.buf # <<>>
    /\ decodeMsg' = Head(chInputBytes.buf)
    /\ chInputBytes' = [chInputBytes EXCEPT !.buf = Tail(@)]
    /\ decodePc' = "send"
    /\ UNCHANGED <<nonWorkerVars, readMsg, listenMsg, chCommands, startVars, panics, cwStop, chStop, startPc, readPc, readCount,
                   chInputMessages, fanPc, fanIdx, fanMsg, chsInput, chsInputMuxR, chProxy,
                   chProxyCloses, inputPc, inputMsg, chout, listenPc>>

\* decode(): chout <- inputMessage
DecodeSend ==
    /\ Alive
    /\ decodePc = "send"
    /\ Len(chInputMessages.buf) < ChanInputSize
    /\ chInputMessages' = [chInputMessages EXCEPT !.buf = Append(@, decodeMsg)]
    /\ decodeMsg' = ZeroInputMessage
    /\ decodePc' = "recv"
    /\ UNCHANGED <<nonWorkerVars, readMsg, listenMsg, chCommands, startVars, panics, cwStop, chStop, startPc, readPc, readCount,
                   chInputBytes, fanPc, fanIdx, fanMsg, chsInput, chsInputMuxR, chProxy,
                   chProxyCloses, inputPc, inputMsg, chout, listenPc>>

\* decode(): case <-stop; the deferred call closes chout
DecodeStop ==
    /\ Alive
    /\ decodePc = "recv"
    /\ chStop
    /\ chInputMessages' = [chInputMessages EXCEPT !.closed = TRUE]
    /\ decodePc' = "done"
    /\ UNCHANGED <<nonWorkerVars, listenVars, startVars, panics, cwStop, chStop, startPc, readPc, readCount,
                   chInputBytes, fanPc, fanIdx, fanMsg, chsInput, chsInputMuxR, chProxy,
                   chProxyCloses, inputPc, inputMsg, chout, listenPc>>

\* broadcastInputMessage(): case inputMessage := <-chin, then RLock
FanRecv ==
    /\ Alive
    /\ fanPc = "recv"
    /\ chInputMessages.buf # <<>> \/ chInputMessages.closed
    /\ fanMsg' = IF chInputMessages.buf # <<>> THEN Head(chInputMessages.buf)
                 ELSE ZeroInputMessage
    /\ chInputMessages' = [chInputMessages EXCEPT
                              !.buf = IF @ # <<>> THEN Tail(@) ELSE @]
    /\ chsInputMuxR' = chsInputMuxR + 1
    /\ fanIdx' = 1
    /\ fanPc' = "range"
    /\ UNCHANGED <<nonWorkerVars, listenVars, startVars, panics, cwStop, chStop, startPc, readPc, readCount,
                   chInputBytes, decodePc, chsInput, chProxy, chProxyCloses, inputPc, inputMsg,
                   chout, listenPc>>

\* broadcastInputMessage(): case ch <- inputMessage
FanSend ==
    /\ Alive
    /\ fanPc = "range"
    /\ fanIdx <= Len(chsInput)
    /\ LET s == chsInput[fanIdx]
       IN  IF chProxyCloses[s] > 0
           THEN /\ panics' = panics \cup {"chProxy: send on closed channel"}
                /\ UNCHANGED <<chProxy, fanIdx>>
           ELSE /\ Len(chProxy[s]) < ChanInputSize
                /\ chProxy' = [chProxy EXCEPT ![s] = Append(@, fanMsg)]
                /\ fanIdx' = fanIdx + 1
                /\ UNCHANGED panics
    /\ UNCHANGED <<nonWorkerVars, listenVars, startVars, cwStop, chStop, startPc, readPc, readCount, chInputBytes,
                   decodePc, chInputMessages, fanPc, fanMsg, chsInput, chsInputMuxR,
                   chProxyCloses, inputPc, inputMsg, chout, listenPc>>

\* broadcastInputMessage(): case <-stop inside the range loop: return,
\* with no RUnlock
FanSendStop ==
    /\ Alive
    /\ fanPc = "range"
    /\ fanIdx <= Len(chsInput)
    /\ chStop
    /\ fanPc' = "done"
    /\ UNCHANGED <<nonWorkerVars, listenVars, startVars, panics, cwStop, chStop, startPc, readPc, readCount,
                   chInputBytes, decodePc, chInputMessages, fanIdx, fanMsg, chsInput,
                   chsInputMuxR, chProxy, chProxyCloses, inputPc, inputMsg, chout, listenPc>>

\* broadcastInputMessage(): RUnlock after the range loop
FanRUnlock ==
    /\ Alive
    /\ fanPc = "range"
    /\ fanIdx > Len(chsInput)
    /\ chsInputMuxR' = chsInputMuxR - 1
    /\ fanPc' = "recv"
    /\ UNCHANGED <<nonWorkerVars, listenVars, startVars, panics, cwStop, chStop, startPc, readPc, readCount,
                   chInputBytes, decodePc, chInputMessages, fanIdx, fanMsg, chsInput,
                   chProxy, chProxyCloses, inputPc, inputMsg, chout, listenPc>>

\* broadcastInputMessage(): case <-stop of the outer select
FanStop ==
    /\ Alive
    /\ fanPc = "recv"
    /\ chStop
    /\ fanPc' = "done"
    /\ UNCHANGED <<nonWorkerVars, listenVars, startVars, panics, cwStop, chStop, startPc, readPc, readCount,
                   chInputBytes, decodePc, chInputMessages, fanIdx, fanMsg, chsInput,
                   chsInputMuxR, chProxy, chProxyCloses, inputPc, inputMsg, chout, listenPc>>

\* input(): case inputMessage := <-chProxy
InputRecv(s) ==
    /\ Alive
    /\ inputPc[s] = "loop"
    /\ chProxy[s] # <<>> \/ chProxyCloses[s] > 0
    /\ inputMsg' = [inputMsg EXCEPT ![s] = IF chProxy[s] # <<>> THEN Head(chProxy[s])
                                           ELSE ZeroInputMessage]
    /\ chProxy' = [chProxy EXCEPT ![s] = IF @ # <<>> THEN Tail(@) ELSE @]
    /\ inputPc' = [inputPc EXCEPT ![s] = "send"]
    /\ UNCHANGED <<nonWorkerVars, listenVars, startVars, panics, cwStop, chStop, startPc, readPc, readCount,
                   chInputBytes, decodePc, chInputMessages, fanPc, fanIdx, fanMsg, chsInput,
                   chsInputMuxR, chProxyCloses, chout, listenPc>>

\* sendInputMessage: the message is sent, or given up on stop or on the
\* timer, or the ticker finds the channel full (len(ch) == cap(ch))
sendInputMessage(s) ==
    /\ Alive
    /\ inputPc[s] = "send"
    /\ \/ /\ Len(chout[s]) < ChanInputSize
          /\ chout' = [chout EXCEPT ![s] = Append(@, inputMsg[s])]
          /\ inputPc' = [inputPc EXCEPT ![s] = "loop"]
          /\ inputMsg' = [inputMsg EXCEPT ![s] = ZeroInputMessage]
       \/ /\ inputPc' = [inputPc EXCEPT ![s] = "loop"]
          /\ inputMsg' = [inputMsg EXCEPT ![s] = ZeroInputMessage]
          /\ UNCHANGED chout
       \/ /\ Len(chout[s]) = ChanInputSize
          /\ inputPc' = [inputPc EXCEPT ![s] = "drop"]
          /\ UNCHANGED <<chout, inputMsg>>
    /\ UNCHANGED <<nonWorkerVars, listenVars, startVars, panics, cwStop, chStop, startPc, readPc, readCount,
                   chInputBytes, decodePc, chInputMessages, fanPc, fanIdx, fanMsg, chsInput,
                   chsInputMuxR, chProxy, chProxyCloses, listenPc>>

\* sendInputMessage: <-ch after the ticker found the channel full, a plain
\* receive that waits for an element
sendInputMessageDrop(s) ==
    /\ Alive
    /\ inputPc[s] = "drop"
    /\ chout[s] # <<>>
    /\ chout' = [chout EXCEPT ![s] = Tail(@)]
    /\ inputPc' = [inputPc EXCEPT ![s] = "send"]
    /\ UNCHANGED <<nonWorkerVars, listenVars, startVars, panics, cwStop, chStop, startPc, readPc, readCount,
                   chInputBytes, decodePc, chInputMessages, fanPc, fanIdx, fanMsg, chsInput,
                   chsInputMuxR, chProxy, chProxyCloses, inputMsg, listenPc>>

\* input(): case <-stop
InputStop(s) ==
    /\ Alive
    /\ inputPc[s] = "loop"
    /\ chStop
    /\ inputPc' = [inputPc EXCEPT ![s] = "cleanup"]
    /\ UNCHANGED <<nonWorkerVars, listenVars, startVars, panics, cwStop, chStop, startPc, readPc, readCount,
                   chInputBytes, decodePc, chInputMessages, fanPc, fanIdx, fanMsg, chsInput,
                   chsInputMuxR, chProxy, chProxyCloses, inputMsg, chout, listenPc>>

\* closing chProxy whether or not it is still in cw.chsInput
InputCleanup_CloseAlways(s) ==
    /\ Alive
    /\ inputPc[s] = "cleanup"
    /\ chsInputMuxR = 0
    /\ chsInput' = SelectSeqIn(chsInput, SeqToSet(chsInput) \ {s})
    /\ chProxyCloses' = [chProxyCloses EXCEPT ![s] = @ + 1]
    /\ panics' = IF chProxyCloses[s] > 0 THEN panics \cup {"chProxy: close of closed channel"}
                 ELSE panics
    /\ inputPc' = [inputPc EXCEPT ![s] = "done"]
    /\ UNCHANGED <<nonWorkerVars, listenVars, startVars, cwStop, chStop, startPc, readPc, readCount, chInputBytes,
                   decodePc, chInputMessages, fanPc, fanIdx, fanMsg, chsInputMuxR, chProxy,
                   inputMsg, chout, listenPc>>

\* input(): the deferred calls: under the lock chProxy, if still in
\* cw.chsInput, is removed and closed; then chout is closed
InputCleanup(s) ==
    /\ Alive
    /\ inputPc[s] = "cleanup"
    /\ chsInputMuxR = 0
    /\ chsInput' = SelectSeqIn(chsInput, SeqToSet(chsInput) \ {s})
    /\ chProxyCloses' = [chProxyCloses EXCEPT ![s] = IF Registered(s) THEN @ + 1 ELSE @]
    /\ panics' = IF Registered(s) /\ chProxyCloses[s] > 0
                 THEN panics \cup {"chProxy: close of closed channel"}
                 ELSE panics
    /\ inputPc' = [inputPc EXCEPT ![s] = "done"]
    /\ UNCHANGED <<nonWorkerVars, listenVars, startVars, cwStop, chStop, startPc, readPc, readCount, chInputBytes,
                   decodePc, chInputMessages, fanPc, fanIdx, fanMsg, chsInputMuxR, chProxy,
                   inputMsg, chout, listenPc>>

\* the listeners handling every message whatever its type
ListenRecv_NoFilter(s) ==
    /\ Alive
    /\ listenPc[s] = "run"
    /\ chout[s] # <<>>
    /\ chout' = [chout EXCEPT ![s] = Tail(@)]
    /\ LET message == Head(chout[s])
       IN  IF s = "commands"
           THEN /\ listenPc' = [listenPc EXCEPT ![s] = "send"]
                /\ listenMsg' = message
                /\ UNCHANGED cwBroadcasts
           ELSE /\ cwBroadcasts' = Append(cwBroadcasts, <<"listenPlayerBroadcasts", message>>)
                /\ UNCHANGED <<listenPc, listenMsg>>
    /\ UNCHANGED <<nonWorkerVars, readMsg, decodeMsg, chCommands, cwFlagStarted, start2Pc,
                   pipelines, panics, cwStop, chStop, startPc, readPc, readCount,
                   chInputBytes, decodePc, chInputMessages, fanPc, fanIdx, fanMsg, chsInput,
                   chsInputMuxR, chProxy, chProxyCloses, inputPc, inputMsg>>

\* listenSnakeCommands, listenPlayerBroadcasts: case message := <-chin and
\* the test of message.Type; the payload of a message is the message
ListenRecv(s) ==
    /\ Alive
    /\ listenPc[s] = "run"
    /\ chout[s] # <<>>
    /\ chout' = [chout EXCEPT ![s] = Tail(@)]
    /\ LET message == Head(chout[s])
       IN  IF s = "commands"
           THEN /\ listenPc' = [listenPc EXCEPT ![s] =
                                    IF message = InputMessageTypeSnakeCommand THEN "send"
                                    ELSE @]
                /\ listenMsg' = IF message = InputMessageTypeSnakeCommand THEN message
                                ELSE listenMsg
                /\ UNCHANGED cwBroadcasts
           ELSE /\ cwBroadcasts' = IF message = InputMessageTypeBroadcast
                                   THEN Append(cwBroadcasts,
                                               <<"listenPlayerBroadcasts", message>>)
                                   ELSE cwBroadcasts
                /\ UNCHANGED <<listenPc, listenMsg>>
    /\ UNCHANGED <<nonWorkerVars, readMsg, decodeMsg, chCommands, cwFlagStarted, start2Pc,
                   pipelines, panics, cwStop, chStop, startPc, readPc, readCount,
                   chInputBytes, decodePc, chInputMessages, fanPc, fanIdx, fanMsg, chsInput,
                   chsInputMuxR, chProxy, chProxyCloses, inputPc, inputMsg>>

\* listenSnakeCommands: case chout <- message.Payload
ListenSend ==
    /\ Alive
    /\ listenPc["commands"] = "send"
    /\ Len(chCommands) < CommandsBufferSize
    /\ chCommands' = Append(chCommands, listenMsg)
    /\ listenMsg' = ZeroInputMessage
    /\ listenPc' = [listenPc EXCEPT !["commands"] = "run"]
    /\ UNCHANGED <<nonWorkerVars, readMsg, decodeMsg, startVars, panics, cwStop, chStop,
                   startPc, readPc, readCount, chInputBytes, decodePc, chInputMessages, fanPc,
                   fanIdx, fanMsg, chsInput, chsInputMuxR, chProxy, chProxyCloses, inputPc,
                   inputMsg, chout>>

\* Player.processSnakeCommands: case command := <-chin
processSnakeCommands ==
    /\ Alive
    /\ chCommands # <<>>
    /\ chCommands' = Tail(chCommands)
    /\ UNCHANGED <<nonWorkerVars, readMsg, decodeMsg, listenMsg, startVars, panics, cwStop,
                   chStop, startPc, readPc, readCount, chInputBytes, decodePc,
                   chInputMessages, fanPc, fanIdx, fanMsg, chsInput, chsInputMuxR, chProxy,
                   chProxyCloses, inputPc, inputMsg, chout, listenPc>>

\* listenSnakeCommands, listenPlayerBroadcasts: case <-stop
ListenStop(s) ==
    /\ Alive
    /\ listenPc[s] \in {"run", "send"}
    /\ chStop
    /\ listenPc' = [listenPc EXCEPT ![s] = "done"]
    /\ UNCHANGED <<nonWorkerVars, listenVars, startVars, panics, cwStop, chStop, startPc, readPc, readCount,
                   chInputBytes, decodePc, chInputMessages, fanPc, fanIdx, fanMsg, chsInput,
                   chsInputMuxR, chProxy, chProxyCloses, inputPc, inputMsg, chout>>

NextWorker ==
    \/ StartCheck
    \/ Start
    \/ \E s \in InputSubs : input(s)
    \/ CloseWorkerStop
    \/ StartSelect
    \/ stopInputs
    \/ ReadMessage(InputMessage)
    \/ ReadSend
    \/ ReadError
    \/ DecodeRecv
    \/ DecodeSend
    \/ DecodeStop
    \/ FanRecv
    \/ FanSend
    \/ FanSendStop
    \/ FanRUnlock
    \/ FanStop
    \/ \E s \in InputSubs :
        \/ InputRecv(s)
        \/ sendInputMessage(s)
        \/ sendInputMessageDrop(s)
        \/ InputStop(s)
        \/ InputCleanup(s)
        \/ ListenRecv(s)
        \/ ListenStop(s)

SpecWorker == Init /\ [][NextWorker]_vars

\* the goroutines Start has launched that have not returned
RunningGoroutines ==
    {g \in {"read", "decode", "broadcastInputMessage"} :
        \/ g = "read" /\ readPc \in {"read", "send"}
        \/ g = "decode" /\ decodePc \in {"recv", "send"}
        \/ g = "broadcastInputMessage" /\ fanPc \in {"recv", "range"}}
    \cup {s \in InputSubs : inputPc[s] \in {"loop", "send", "drop", "cleanup"}}
    \cup {s \in InputSubs : listenPc[s] = "run"}

\* C18: Start is never left waiting for the lock of the input subscribers
\* with the read lock held by a goroutine that has returned, so that
\* after a failed read or a closed stop it goes on to return.
C18_StartNeverWedged ==
    (startPc \in {"input", "stopInputs"} /\ chsInputMuxR > 0) => fanPc = "range"

\* C19: once Start has returned because its stop channel was closed, every
\* goroutine it launched has returned or has its own stop channel closed,
\* without which none of them ever returns.
C19_StopReachesGoroutines ==
    (startPc = "returned" /\ cwStop) => (RunningGoroutines = {} \/ chStop)

Published(e) == e.id \in 1 .. nextId - 1 /\ e # ZeroEvent

\* C5: after stop() no event is delivered on an output stream other than
\* events that were published: every event a consumer receives is one that
\* entered the main queue, never the zero Event of a closed queue.
C5_OnlyPublishedEventsDelivered ==
    \A s \in Subs : \A i \in 1 .. Len(delivered[s]) : Published(delivered[s][i])

\* the pump holds the read lock and waits for room in the proxy queue of s
PumpWaitsFor(s) ==
    /\ pumpPc = "bcast"
    /\ pumpIdx <= Len(chsProxy)
    /\ chsProxy[pumpIdx] = s
    /\ Len(proxy[s]) >= ProxyBufferSize
    /\ ~stopGlobal

C8_DeliveredInOrder ==
    \A s \in Subs : \A i, j \in 1 .. Len(delivered[s]) :
        (i < j /\ Published(delivered[s][i]) /\ Published(delivered[s][j]))
            => delivered[s][i].id < delivered[s][j].id

\* two events delivered in order with the one between them missing
C8_Witness ==
    \E s \in Subs : \E i \in 1 .. Len(delivered[s]) - 1 :
        /\ Published(delivered[s][i])
        /\ Published(delivered[s][i + 1])
        /\ delivered[s][i + 1].id = delivered[s][i].id + 2

SnakesInOrder == <<"snake", "snake2">>

coreVars == <<gridVars, entVars, pg, worldVars, pumpVars, subVars, callVars, panics, cwVars>>
nonPlayerVars == <<coreVars, poolVars, handlerVars>>
nonPoolVars == <<coreVars, playerVars, handlerVars>>
nonHandlerVars == <<coreVars, playerVars, poolVars>>

workerVarsButStop == <<startVars, listenVars, cwStop, startPc, readPc, readCount, chInputBytes, decodePc,
                       chInputMessages, fanPc, fanIdx, fanMsg, chsInput, chsInputMuxR, chProxy,
                       chProxyCloses, inputPc, inputMsg, chout, listenPc>>

\* the snake names no round has used
UnusedSnakes == {s \in Snakes : snake[s].pc = "none"}

NextSnakeName ==
    SnakesInOrder[CHOOSE i \in 1..Len(SnakesInOrder) :
                     /\ SnakesInOrder[i] \in UnusedSnakes
                     /\ \A j \in 1..(i - 1) : SnakesInOrder[j] \notin UnusedSnakes]

\* the channel snakeStop of Snake.Run is closed
SnakeStopClosed(s) == snake[s].pc \in {"stopped", "dead", "failed"}

\* chout <- m in Player.Start
PlayerChout(m) ==
    /\ ~chPlayer.closed
    /\ Len(chPlayer.buf) < PlayerBufferSize
    /\ chPlayer' = [chPlayer EXCEPT !.buf = Append(@, m)]
    /\ playerSent' = Append(playerSent, m)

\* Player.Start: the channels are made and both goroutines launched; the
\* worker launches listenPlayer on the returned channel
PlayerStart ==
    /\ Alive
    /\ playerPc = "none"
    /\ playerPc' = "welcome"
    /\ listenPlayerPc' = "select"
    /\ UNCHANGED <<nonPlayerVars, localStopper, chPlayer, playerSent, playerSnake>>

\* the stop channel given to Player.Start is closed
PlayerStopCloses ==
    /\ Alive
    /\ playerPc # "none"
    /\ ~chStop
    /\ chStop' = TRUE
    /\ UNCHANGED <<nonWorkerVars, listenVars, startVars, panics, workerVarsButStop>>

\* the first goroutine of Player.Start: <-stop; close(localStopper)
PlayerStopper ==
    /\ Alive
    /\ chStop
    /\ ~localStopper
    /\ localStopper' = TRUE
    /\ UNCHANGED <<nonPlayerVars, playerPc, chPlayer, playerSent, listenPlayerPc, playerSnake>>

\* the three initial messages
PlayerSendInitial ==
    /\ Alive
    /\ playerPc \in {"welcome", "size", "objects"}
    /\ PlayerChout(playerPc)
    /\ playerPc' = CASE playerPc = "welcome" -> "size"
                     [] playerPc = "size" -> "objects"
                     [] OTHER -> "countdown"
    /\ UNCHANGED <<nonPlayerVars, localStopper, listenPlayerPc, playerSnake>>

\* chout <- NewMessageCountdown(countdown) and the timer is started
PlayerSendCountdown ==
    /\ Alive
    /\ playerPc = "countdown"
    /\ UnusedSnakes # {}
    /\ PlayerChout("countdown")
    /\ playerPc' = "timer"
    /\ UNCHANGED <<nonPlayerVars, localStopper, listenPlayerPc, playerSnake>>

\* case <-timer.C: the countdown elapses with localStopper open
PlayerTimer ==
    /\ Alive
    /\ playerPc = "timer"
    /\ ~localStopper
    /\ playerPc' = "start"
    /\ UNCHANGED <<nonPlayerVars, localStopper, chPlayer, playerSent, listenPlayerPc,
                   playerSnake>>

\* return with the deferred close(chout)
PlayerReturn ==
    /\ playerPc' = "done"
    /\ chPlayer' = [chPlayer EXCEPT !.closed = TRUE]
    /\ UNCHANGED <<nonPlayerVars, localStopper, playerSent, listenPlayerPc, playerSnake>>

\* case <-localStopper of the countdown
PlayerTimerStop ==
    /\ Alive
    /\ playerPc = "timer"
    /\ localStopper
    /\ PlayerReturn

\* chout <- NewMessageNotice("start"); snake.NewSnake is called next
PlayerSendStart ==
    /\ Alive
    /\ playerPc = "start"
    /\ PlayerChout("start")
    /\ playerPc' = "newSnake"
    /\ playerSnake' = NextSnakeName
    /\ UNCHANGED <<nonPlayerVars, localStopper, listenPlayerPc>>

\* s, err := snake.NewSnake(p.world)
PlayerNewSnake ==
    /\ playerPc = "newSnake"
    /\ snake[playerSnake].pc = "none"
    /\ NewSnake(playerSnake)

\* err != nil: chout <- NewMessageError("cannot create snake"); continue
PlayerSendError ==
    /\ Alive
    /\ playerPc = "newSnake"
    /\ snake[playerSnake].pc = "refused"
    /\ PlayerChout("error")
    /\ playerPc' = "countdown"
    /\ UNCHANGED <<nonPlayerVars, localStopper, listenPlayerPc, playerSnake>>

\* snakeStop := s.Run(localStopper)
PlayerRun ==
    /\ playerPc = "newSnake"
    /\ Run(playerSnake)

\* the snake's loop takes case <-stop, its stop being localStopper
PlayerSnakeStopped ==
    /\ playerSnake \in Snakes
    /\ localStopper
    /\ RunStopped(playerSnake)

\* chout <- NewMessageSnake(s.GetUUID()); processSnakeCommands is launched
PlayerSendSnake ==
    /\ Alive
    /\ playerPc = "newSnake"
    /\ snake[playerSnake].pc \notin {"none", "refused", "created"}
    /\ PlayerChout(playerSnake)
    /\ playerPc' = "wait"
    /\ UNCHANGED <<nonPlayerVars, localStopper, listenPlayerPc, playerSnake>>

\* the round going on without waiting for the snake
PlayerWait_NoWait ==
    /\ Alive
    /\ playerPc = "wait"
    /\ playerPc' = "countdown"
    /\ UNCHANGED <<nonPlayerVars, localStopper, chPlayer, playerSent, listenPlayerPc,
                   playerSnake>>

\* the select at the end of the round: case <-snakeStop
PlayerWait ==
    /\ Alive
    /\ playerPc = "wait"
    /\ SnakeStopClosed(playerSnake)
    /\ playerPc' = "countdown"
    /\ UNCHANGED <<nonPlayerVars, localStopper, chPlayer, playerSent, listenPlayerPc,
                   playerSnake>>

\* the select at the end of the round: case <-localStopper
PlayerWaitStop ==
    /\ Alive
    /\ playerPc = "wait"
    /\ localStopper
    /\ PlayerReturn

\* listenPlayer: case event := <-chin; a closed and drained channel yields
\* the zero value
ListenPlayerRecv ==
    /\ Alive
    /\ listenPlayerPc = "select"
    /\ chPlayer.buf # <<>> \/ chPlayer.closed
    /\ chPlayer' = [chPlayer EXCEPT !.buf = IF @ = <<>> THEN @ ELSE Tail(@)]
    /\ listenPlayerPc' = "send"
    /\ UNCHANGED <<nonPlayerVars, playerPc, localStopper, playerSent, playerSnake>>

\* listenPlayer: case chout <- outputMessage, taken by the encoder
ListenPlayerSend ==
    /\ Alive
    /\ listenPlayerPc = "send"
    /\ listenPlayerPc' = "select"
    /\ UNCHANGED <<nonPlayerVars, playerPc, localStopper, chPlayer, playerSent, playerSnake>>

\* listenPlayer: case <-stop of either select
ListenPlayerStop ==
    /\ Alive
    /\ listenPlayerPc \in {"select", "send"}
    /\ chStop
    /\ listenPlayerPc' = "done"
    /\ UNCHANGED <<nonPlayerVars, playerPc, localStopper, chPlayer, playerSent, playerSnake>>

InitPlayer ==
    /\ InitWorld(Snakes, GridW, 1, TRUE)
    /\ pumpPc = "recv"

NextPlayer ==
    \/ PlayerStart
    \/ PlayerStopCloses
    \/ PlayerStopper
    \/ PlayerSendInitial
    \/ PlayerSendCountdown
    \/ PlayerTimer
    \/ PlayerTimerStop
    \/ PlayerSendStart
    \/ PlayerNewSnake
    \/ PlayerSendError
    \/ PlayerRun
    \/ PlayerSnakeStopped
    \/ PlayerSendSnake
    \/ PlayerWait
    \/ PlayerWaitStop
    \/ \E s \in Snakes \cap {playerSnake} :
        \/ moveGetObjectByDot(s)
        \/ Die(s)
        \/ moveUpdateObject(s)
    \/ ListenPlayerRecv
    \/ ListenPlayerSend
    \/ ListenPlayerStop
    \/ PumpRecvEvent
    \/ BroadcastRLock
    \/ BroadcastRUnlock

SpecPlayer == InitPlayer /\ [][NextPlayer]_vars

\* the snake name of the round the i-th message belongs to
NameOfRound(i) ==
    SnakesInOrder[Cardinality({j \in 1..i : playerSent[j] = "start"})]

PlayerRounds ==
    \A i \in 1..Len(playerSent) :
        LET m == playerSent[i]
            last == IF i = 1 THEN "" ELSE playerSent[i - 1]
        IN  /\ (i = 1) => m = "welcome"
            /\ (i = 2) => m = "size"
            /\ (i = 3) => m = "objects"
            /\ (i > 3) =>
                /\ m \in {"countdown", "start", "error"} \cup Snakes
                /\ (m = "countdown") => last \in {"objects", "error"} \cup Snakes
                /\ (m = "start") => last = "countdown"
                /\ (m \in {"error"} \cup Snakes) => last = "start"
            /\ (m = "error") => snake[NameOfRound(i)].pc = "refused"
            /\ (m \in Snakes) => m = NameOfRound(i) /\ snake[m].pc \notin {"none", "refused"}
            /\ (m = "countdown" /\ last \in Snakes) => SnakeStopClosed(last)

\* C21: the player's stream is welcome, size, objects and then rounds of
\* countdown, start and either the error (the creation of the snake failed)
\* or the snake (it succeeded); a countdown follows a snake only when that
\* snake's loop has ended, and no two snakes of the player are running.
C21_StreamOfRounds ==
    /\ PlayerRounds
    /\ Cardinality({s \in Snakes : snake[s].pc \in {"created", "loop", "die", "update"}}) <= 1

C21_Witness ==
    /\ \E i \in 1..(Len(playerSent) - 1) :
          playerSent[i] \in Snakes /\ playerSent[i + 1] = "countdown"
    /\ \E i \in 1..Len(playerSent) : playerSent[i] = "error"

\* the player's goroutine is at one of its sends to chout
PlayerAtSend ==
    \/ playerPc \in {"welcome", "size", "objects", "countdown", "start"}
    \/ /\ playerPc = "newSnake"
       /\ snake[playerSnake].pc \notin {"none", "created"}

\* C22: once the stop channel of Player.Start is closed and the consumer of
\* the stream has returned, the player is never left in a send that the
\* full buffer blocks for ever.
C22_StopEndsPlayer ==
    (chStop /\ listenPlayerPc = "done" /\ PlayerAtSend)
        => Len(chPlayer.buf) < PlayerBufferSize

(***************************************************************************)
(* PGPool (pool_factory.go): the connections of a pool are a Go slice made *)
(* with capacity connLimit.                                                *)
(***************************************************************************)
\* append(s, x) on a slice of capacity c: a full slice is reallocated with
\* a larger capacity
GoAppend(s, c, x) ==
    [s |-> Append(s, x),
     cap |-> IF Len(s) < c THEN c ELSE IF c = 0 THEN 1 ELSE 2 * c]

IsFull == poolCap = Len(poolConns)

IsEmpty == Len(poolConns) = 0

\* AddConn appending without the test of IsFull
AddConn_NoCheck(ws) ==
    /\ LET a == GoAppend(poolConns, poolCap, ws)
       IN  /\ poolConns' = a.s
           /\ poolCap' = a.cap
    /\ poolLast' = [op |-> "add", ws |-> ws, err |-> "", cancel |-> FALSE]
    /\ UNCHANGED <<nonPoolVars, poolCancelled>>

\* PGPool.AddConn
AddConn(ws) ==
    /\ IF IsFull
       THEN /\ poolLast' = [op |-> "add", ws |-> ws, err |-> "pool is full",
                            cancel |-> FALSE]
            /\ UNCHANGED <<poolConns, poolCap>>
       ELSE /\ LET a == GoAppend(poolConns, poolCap, ws)
               IN  /\ poolConns' = a.s
                   /\ poolCap' = a.cap
            /\ poolLast' = [op |-> "add", ws |-> ws, err |-> "", cancel |-> FALSE]
    /\ UNCHANGED <<nonPoolVars, poolCancelled>>

\* the index of the first p.conns[i] == ws, 0 when there is none
FirstConn(ws) ==
    IF \E i \in 1..Len(poolConns) : poolConns[i] = ws
    THEN CHOOSE i \in 1..Len(poolConns) :
            /\ poolConns[i] = ws
            /\ \A j \in 1..(i - 1) : poolConns[j] # ws
    ELSE 0

\* PGPool.HasConn
HasConn(ws) == \E i \in 1..Len(poolConns) : poolConns[i] = ws

\* DelConn calling cancel whenever it has removed a connection
DelConn_CancelAlways(ws) ==
    /\ LET i == FirstConn(ws)
       IN  IF i = 0
           THEN /\ poolLast' = [op |-> "del", ws |-> ws, err |-> "not found",
                                cancel |-> FALSE]
                /\ UNCHANGED <<poolConns, poolCancelled>>
           ELSE /\ poolConns' = SubSeq(poolConns, 1, i - 1) \o
                                    SubSeq(poolConns, i + 1, Len(poolConns))
                /\ poolCancelled' = TRUE
                /\ poolLast' = [op |-> "del", ws |-> ws, err |-> "", cancel |-> TRUE]
    /\ UNCHANGED <<nonPoolVars, poolCap>>

\* PGPool.DelConn: append(p.conns[:i], p.conns[i+1:]...) writes into the
\* same array, which keeps its capacity; p.cancel() when the pool IsEmpty
DelConn(ws) ==
    /\ LET i == FirstConn(ws)
           rest == SubSeq(poolConns, 1, i - 1) \o SubSeq(poolConns, i + 1, Len(poolConns))
       IN  IF i = 0
           THEN /\ poolLast' = [op |-> "del", ws |-> ws, err |-> "not found",
                                cancel |-> FALSE]
                /\ UNCHANGED <<poolConns, poolCancelled>>
           ELSE /\ poolConns' = rest
                /\ poolCancelled' = (poolCancelled \/ Len(rest) = 0)
                /\ poolLast' = [op |-> "del", ws |-> ws, err |-> "", cancel |-> Len(rest) = 0]
    /\ UNCHANGED <<nonPoolVars, poolCap>>

NextPool ==
    \E ws \in Conns :
        \/ AddConn(ws)
        \/ DelConn(ws)

SpecPool == Init /\ [][NextPool]_vars

\* C23: a pool never holds more connections than its limit, and AddConn on
\* a full pool returns the error and leaves the connections as they were.
C23_WithinLimit ==
    [][/\ Len(poolConns') <= ConnLimit
       /\ (poolLast'.op = "add" /\ Len(poolConns) = ConnLimit)
            => (poolLast'.err = "pool is full" /\ poolConns' = poolConns)]_vars

C23_Witness ==
    /\ poolLast = [op |-> "add", ws |-> "ws3", err |-> "pool is full", cancel |-> FALSE]
    /\ Len(poolConns) = ConnLimit
    /\ poolCancelled

(***************************************************************************)
(* gameWebSocketHandler.ServeHTTP, one run per request.  The group manager *)
(* and the group are not part of the sources: Get fails with               *)
(* ErrNotFoundGroup for an unknown id, IsFull compares the slots taken     *)
(* with the limit, Handle takes a slot or fails with ErrGroupFull, runs    *)
(* the worker and releases the slot when the worker returns.               *)
(***************************************************************************)
RequestIds == {"bad", "unknown", "known"}

GroupIsFull == groupCount = GroupLimit

\* strconv.Atoi and groupManager.Get with their error returns
ServeHTTPGet(q) ==
    /\ reqPc[q] = "idle"
    /\ \E id \in RequestIds :
        /\ reqId' = [reqId EXCEPT ![q] = id]
        /\ reqStatus' = [reqStatus EXCEPT ![q] = CASE id = "bad" -> 400
                                                   [] id = "unknown" -> 404
                                                   [] OTHER -> @]
        /\ reqPc' = [reqPc EXCEPT ![q] = IF id = "known" THEN "isFull" ELSE "done"]
    /\ UNCHANGED <<nonHandlerVars, reqConn, reqHanded, groupCount>>

\* if group.IsFull() { ... 503; return }
ServeHTTPIsFull(q) ==
    /\ reqPc[q] = "isFull"
    /\ reqStatus' = [reqStatus EXCEPT ![q] = IF GroupIsFull THEN 503 ELSE @]
    /\ reqPc' = [reqPc EXCEPT ![q] = IF GroupIsFull THEN "done" ELSE "upgrade"]
    /\ UNCHANGED <<nonHandlerVars, reqId, reqConn, reqHanded, groupCount>>

\* conn, err := upgrader.Upgrade(w, r, nil): on an error the status is
\* written and the function goes on with a nil conn
ServeHTTPUpgrade(q) ==
    /\ reqPc[q] = "upgrade"
    /\ \E ok \in BOOLEAN :
        /\ reqConn' = [reqConn EXCEPT ![q] = IF ok THEN "conn" ELSE "nil"]
        /\ reqStatus' = [reqStatus EXCEPT ![q] = IF ok THEN @ ELSE 500]
    /\ reqPc' = [reqPc EXCEPT ![q] = "handle"]
    /\ UNCHANGED <<nonHandlerVars, reqId, reqHanded, groupCount>>

\* group.Handle(connections.NewConnectionWorker(conn, h.logger)): the
\* worker is started when a slot is free
ServeHTTPHandle(q) ==
    /\ reqPc[q] = "handle"
    /\ reqHanded' = [reqHanded EXCEPT ![q] = TRUE]
    /\ IF GroupIsFull
       THEN /\ reqPc' = [reqPc EXCEPT ![q] = "done"]
            /\ UNCHANGED groupCount
       ELSE /\ reqPc' = [reqPc EXCEPT ![q] = "worker"]
            /\ groupCount' = groupCount + 1
    /\ UNCHANGED <<nonHandlerVars, reqId, reqStatus, reqConn>>

\* the worker returns, Handle releases the slot and ServeHTTP returns
ServeHTTPHandleReturns(q) ==
    /\ reqPc[q] = "worker"
    /\ groupCount' = groupCount - 1
    /\ reqPc' = [reqPc EXCEPT ![q] = "done"]
    /\ UNCHANGED <<nonHandlerVars, reqId, reqStatus, reqConn, reqHanded>>

NextHandler ==
    \E q \in Requests :
        \/ ServeHTTPGet(q)
        \/ ServeHTTPIsFull(q)
        \/ ServeHTTPUpgrade(q)
        \/ ServeHTTPHandle(q)
        \/ ServeHTTPHandleReturns(q)

SpecHandler == Init /\ [][NextHandler]_vars

\* C24: a worker is given to group.Handle only for a request whose id was
\* parsed and names a group and whose upgrade succeeded; a request that was
\* answered with an error status has no worker.
C24_HandleOnlyOnSuccess ==
    \A q \in Requests :
        reqHanded[q] => (reqId[q] = "known" /\ reqConn[q] = "conn" /\ reqStatus[q] = 0)

(***************************************************************************)
(* A second call of Start on the same worker.  The goroutines of the model *)
(* are those of the first call; of the second only the test of the flag    *)
(* and the creation of the pipelines are kept.                             *)
(***************************************************************************)
Start2Check ==
    /\ Alive
    /\ start2Pc = "new"
    /\ start2Pc' = IF cwFlagStarted THEN "rejected" ELSE "checked"
    /\ UNCHANGED <<nonWorkerVars, listenVars, panics, cwFlagStarted, pipelines, cwBroadcasts, cwStop,
                   chStop, startPc, readPc, readCount, chInputBytes, decodePc,
                   chInputMessages, fanPc, fanIdx, fanMsg, chsInput, chsInputMuxR, chProxy,
                   chProxyCloses, inputPc, inputMsg, chout, listenPc>>

\* the second call from cw.flagStarted = true to its select
Start2 ==
    /\ Alive
    /\ start2Pc = "checked"
    /\ cwFlagStarted' = TRUE
    /\ StartBroadcast("call2", "user joined your game group")
    /\ pipelines' = pipelines + 1
    /\ start2Pc' = "select"
    /\ UNCHANGED <<nonWorkerVars, listenVars, panics, cwStop, chStop, startPc, readPc, readCount,
                   chInputBytes, decodePc, chInputMessages, fanPc, fanIdx, fanMsg, chsInput,
                   chsInputMuxR, chProxy, chProxyCloses, inputPc, inputMsg, chout, listenPc>>

NextStart ==
    \/ StartCheck
    \/ Start
    \/ Start2Check
    \/ Start2
    \/ \E s \in InputSubs : input(s)
    \/ CloseWorkerStop
    \/ StartSelect
    \/ stopInputs
    \/ ReadMessage(InputMessage)
    \/ ReadSend
    \/ ReadError
    \/ DecodeRecv
    \/ DecodeSend
    \/ DecodeStop

SpecStart == Init /\ [][NextStart]_vars

\* the fan-out has returned holding the read lock of cw.chsInputMux, so
\* that the Lock of input() is never granted
WedgedAtInput == startPc = "input" /\ chsInputMuxR > 0 /\ fanPc = "done"

\* C25: the first call of Start broadcasts the join message once, before
\* its pipelines exist, and the leave message once, after its stop
\* condition; when the stop condition has occurred and the leave message is
\* still to come, Start is not wedged before it.
C25_JoinThenLeave ==
    LET mine == SelectSeq(cwBroadcasts, LAMBDA b : b[1] = "call1")
        joined == <<"call1", "user joined your game group">>
        left == <<"call1", "user left your game group">>
    IN  /\ mine \in {<<>>, <<joined>>, <<joined, left>>}
        /\ (startPc \in {"new", "checked", "rejected"}) => mine = <<>>
        /\ (startPc \in {"input", "select"}) => mine = <<joined>>
        /\ (startPc \in {"stopInputs", "returned"}) => mine = <<joined, left>>
        /\ (mine = <<joined, left>>) => (chStop \/ cwStop)
        /\ (chStop \/ cwStop) => ~WedgedAtInput

\* C26: of two calls of Start on one worker at most one creates pipelines,
\* and a call that found the flag set returns the error.
C26_StartedOnce ==
    /\ pipelines <= 1
    /\ ~(startPc \in {"input", "select", "stopInputs", "returned"} /\ start2Pc = "select")

(***************************************************************************)
(* The input pipeline with messages of every type, from read() to the two  *)
(* listeners, with the failure of the transport as its only stop.          *)
(***************************************************************************)
NextListen ==
    \/ StartCheck
    \/ Start
    \/ \E s \in InputSubs : input(s)
    \/ \E m \in InputMessages : ReadMessage(m)
    \/ ReadSend
    \/ ReadError
    \/ DecodeRecv
    \/ DecodeSend
    \/ FanRecv
    \/ FanSend
    \/ FanRUnlock
    \/ \E s \in InputSubs :
        \/ InputRecv(s)
        \/ sendInputMessage(s)
        \/ sendInputMessageDrop(s)
        \/ ListenRecv(s)
        \/ ListenStop(s)
    \/ ListenSend
    \/ processSnakeCommands

SpecListen == Init /\ [][NextListen]_vars

\* the listener of s takes the head of its channel in this step: the only
\* other receiver, sendInputMessage dropping the oldest message, moves the
\* input goroutine on
ListenerTook(s) ==
    /\ listenPc[s] = "run"
    /\ chout[s] # <<>>
    /\ chout'[s] = Tail(chout[s])
    /\ inputPc'[s] = inputPc[s]

\* C27: a message a listener takes goes to the player's commands exactly
\* when its type is SnakeCommand and to the group broadcast exactly when its
\* type is Broadcast; nothing else ever reaches either of them.
C27_FilteredByType ==
    [][/\ \A i \in 1..Len(chCommands') : chCommands'[i] = InputMessageTypeSnakeCommand
       /\ \A i \in 1..Len(cwBroadcasts') :
            cwBroadcasts'[i][1] = "listenPlayerBroadcasts"
                => cwBroadcasts'[i][2] = InputMessageTypeBroadcast
       /\ ListenerTook("commands") =>
            /\ cwBroadcasts' = cwBroadcasts
            /\ IF Head(chout["commands"]) = InputMessageTypeSnakeCommand
               THEN listenPc'["commands"] = "send" /\ listenMsg' = Head(chout["commands"])
               ELSE listenPc'["commands"] = "run" /\ listenMsg' = listenMsg
       /\ ListenerTook("broadcasts") =>
            /\ chCommands' = chCommands /\ listenMsg' = listenMsg
            /\ cwBroadcasts' = IF Head(chout["broadcasts"]) = InputMessageTypeBroadcast
                               THEN Append(cwBroadcasts, <<"listenPlayerBroadcasts",
                                                           Head(chout["broadcasts"])>>)
                               ELSE cwBroadcasts
       /\ (listenPc["commands"] = "send" /\ listenPc'["commands"] = "run")
            => chCommands' = Append(chCommands, listenMsg)]_vars

C27_Witness ==
    /\ chCommands = <<InputMessageTypeSnakeCommand>>
    /\ cwBroadcasts = <<<<"call1", "user joined your game group">>,
                        <<"listenPlayerBroadcasts", InputMessageTypeBroadcast>>>>
    /\ readCount = MaxInputs

\* C28: once NutritionalValue has returned, the cells the corpse records
\* for itself are the cells registered to it in the world.
C28_RecordEqualsRegistration ==
    (corpse.pc = "lying" /\ ~corpse.nipping) => LocationEquals(pg["corpse"], corpse.location)

(***************************************************************************)
(* One snake on a playground wide enough for a snake of any direction to   *)
(* find the cell ahead of it free, fed up to MaxLength.                    *)
(***************************************************************************)
InitTick ==
    /\ InitWorld({TheSnake}, DuelW, DuelW, TRUE)
    /\ pumpPc = "recv"

NextTick ==
    \/ NewSnake(TheSnake)
    \/ Run(TheSnake)
    \/ moveGetObjectByDot(TheSnake)
    \/ Die(TheSnake)
    \/ moveUpdateObject(TheSnake)
    \/ snake[TheSnake].length < MaxLength /\ feed(TheSnake, 1)
    \/ PumpRecvEvent
    \/ BroadcastRLock
    \/ BroadcastRUnlock

SpecTick == InitTick /\ [][NextTick]_vars

\* C29: a tick that finds the cell ahead free commits, with one UpdateObject
\* and one ObjectUpdate event, the cell ahead followed by the old cells
\* without the tail when they would exceed the length, and the cells of the
\* snake are then the location registered for it.
C29_TickPrependsHead ==
    [][(snake[TheSnake].pc = "update" /\ snake'[TheSnake].pc # "update") =>
        LET s == TheSnake
            old == snake[s].dots
            dot == snake[s].dot
            grown == <<dot>> \o old
            cells == IF Len(grown) > snake[s].length
                     THEN SubSeq(grown, 1, Len(grown) - 1) ELSE grown
        IN  /\ dot = Navigate(old[1], snake[s].heading, 1)
            /\ PgFree(pg, dot) =>
                /\ snake'[s].pc = "loop"
                /\ snake'[s].dots = cells
                /\ pg'[s] = cells
                /\ nextId' = nextId + 1
                /\ chMain' = Append(chMain, [Event(EventTypeObjectUpdate, s)
                                                EXCEPT !.id = nextId])]_vars

C29_Witness ==
    /\ snake[TheSnake].pc = "loop"
    /\ snake[TheSnake].step = "s"
    /\ snake[TheSnake].direction = "s"
    /\ Len(snake[TheSnake].dots) = snakeStartLength + 1
    /\ pg[TheSnake] = snake[TheSnake].dots
    /\ nextId = 3

(***************************************************************************)
(* The spawn of a snake and its first ticks on playgrounds from the        *)
(* shortest a snake fits in, snakeStartLength cells, up to DuelW.          *)
(***************************************************************************)
InitSpawn ==
    /\ \E w, h \in snakeStartLength .. DuelW : InitWorld({TheSnake}, w, h, TRUE)
    /\ pumpPc = "recv"

NextSpawn ==
    \/ NewSnake(TheSnake)
    \/ Run(TheSnake)
    \/ moveGetObjectByDot(TheSnake)
    \/ Die(TheSnake)
    \/ moveUpdateObject(TheSnake)
    \/ PumpRecvEvent
    \/ BroadcastRLock
    \/ BroadcastRUnlock

SpecSpawn == InitSpawn /\ [][NextSpawn]_vars

\* the cells of the playground along the direction of the snake
Extent(dir) == IF dir \in {"n", "s"} THEN height ELSE width

\* element 0 of the new snake is its head: cells[1] to cells[0] is its
\* direction, the registered rectangle being reversed exactly for s and e
HeadFirst(s) ==
    /\ CalculateDirection(snake[s].dots[2], snake[s].dots[1]) = {snake[s].direction}
    /\ snake[s].dots = IF snake[s].direction \in {"s", "e"} THEN Reverse(pg[s]) ELSE pg[s]

\* C30 as stated: a new snake has its head first for its direction, and
\* the cell ahead of the head is not a cell of the snake.
C30_HeadFirstAheadFree ==
    snake[TheSnake].pc = "created" =>
        /\ HeadFirst(TheSnake)
        /\ ~Contains(snake[TheSnake].dots,
                     Navigate(snake[TheSnake].dots[1], snake[TheSnake].direction, 1))

\* C30: a new snake has its head first for its direction; the cell ahead
\* of the head is not a cell of the snake on a playground longer than the
\* snake along its direction, and is the snake's tail on one of exactly
\* the snake's length.
C30_HeadFirst ==
    snake[TheSnake].pc = "created" =>
        LET s == TheSnake
            ahead == Navigate(snake[s].dots[1], snake[s].direction, 1)
        IN  /\ HeadFirst(s)
            /\ Extent(snake[s].direction) > snakeStartLength
                    => ~Contains(snake[s].dots, ahead)
            /\ Extent(snake[s].direction) = snakeStartLength
                    => ahead = snake[s].dots[snakeStartLength]

C30_Witness ==
    /\ snake[TheSnake].pc = "created"
    /\ snake[TheSnake].direction = "e"
    /\ width = snakeStartLength + 1
    /\ snake[TheSnake].dots[1] = <<2, 0>>

(***************************************************************************)
(* sendEvent towards the subscriber of SpecFan whose consumer never reads. *)
(***************************************************************************)
\* the running sendEvent call found the output queue full: it is at its
\* select with the queue full, or has taken an element off it
FoundFull(s) ==
    \/ subPc[s] = "send" /\ Len(out[s]) = OutBufferSize
    \/ subPc[s] \in {"lencheck", "drop", "resend"}

\* this step is the return of sendEvent
SendEventReturn(s) == subPc[s] \in SendEventSelect /\ subPc'[s] = "loop"

\* the numbers of the queued events
OutIds(s) == [i \in 1 .. Len(out[s]) |-> out[s][i].id]

\* C31 as stated: when sendEvent finds the output queue of a subscriber that
\* is not reading full, then on return the new event is the last element of
\* the queue, after the events that were behind the oldest one, in their
\* order, and the queue holds no more than its capacity.
C31_NewestWins ==
    [][(FoundFull(SlowSub) /\ SendEventReturn(SlowSub)) =>
            /\ out'[SlowSub] # <<>>
            /\ out'[SlowSub][Len(out'[SlowSub])] = subEv[SlowSub]
            /\ Len(out'[SlowSub]) <= OutBufferSize]_vars

\* C31: a sendEvent call that finds the output queue of a subscriber that
\* is not reading full returns either on its timer, the new event not
\* enqueued, or after it has taken exactly the oldest event off the queue
\* and enqueued the new one last; the queue changes in no other way, so the
\* surviving events keep their order, and it never exceeds its capacity.
C31_DropOldestKeepOrder ==
    [][LET s == SlowSub
       IN  /\ Len(out[s]) <= OutBufferSize /\ Len(out'[s]) <= OutBufferSize
           /\ subPc[s] = "resend" => Len(out[s]) = OutBufferSize - 1
           /\ (subPc[s] = "send" /\ FoundFull(s) /\ subPc'[s] # "send")
                  => subPc'[s] \in {"lencheck", "loop"} /\ out'[s] = out[s]
           /\ (subPc[s] = "lencheck" /\ subPc'[s] # "lencheck")
                  => subPc'[s] = "drop" /\ out'[s] = out[s]
           /\ (subPc[s] = "drop" /\ subPc'[s] # "drop")
                  => /\ Len(out[s]) = OutBufferSize
                     /\ out'[s] = Tail(out[s])
                     /\ subPc'[s] = "resend"
           /\ (subPc[s] = "resend" /\ subPc'[s] # "resend")
                  => /\ subPc'[s] = "loop"
                     /\ out'[s] \in {Append(out[s], subEv[s]), out[s]}
           /\ out'[s] # out[s]
                  => \/ subPc[s] = "drop"
                     \/ SendEventReturn(s) /\ out'[s] = Append(out[s], subEv[s])]_vars

\* the call has taken the oldest event off the full queue: the two events
\* that were behind it are queued in their order, the new one is in hand
C31_Witness ==
    /\ subPc[SlowSub] = "resend"
    /\ OutIds(SlowSub) = <<2, 3>>
    /\ subEv[SlowSub].id = 4

(***************************************************************************)
(* The input pipeline next to a consumer that never reads: nothing takes   *)
(* from the stream of SlowInput, the listener of FastInput reads its own.  *)
(* Nothing closes a stop channel.                                          *)
(***************************************************************************)
SlowInput == "broadcasts"
FastInput == "commands"

NextSlowInput ==
    \/ StartCheck
    \/ Start
    \/ \E s \in InputSubs : input(s)
    \/ \E m \in InputMessages : ReadMessage(m)
    \/ ReadSend
    \/ DecodeRecv
    \/ DecodeSend
    \/ FanRecv
    \/ FanSend
    \/ FanRUnlock
    \/ \E s \in InputSubs :
        \/ InputRecv(s)
        \/ sendInputMessage(s)
        \/ sendInputMessageDrop(s)
    \/ ListenRecv(FastInput)
    \/ ListenSend
    \/ processSnakeCommands

SpecSlowInput == Init /\ [][NextSlowInput]_vars

\* C32: next to a consumer that never reads its input stream every
\* sendInputMessage call returns, so that every subscriber goroutine keeps
\* draining its proxy queue and the fan-out keeps delivering to the other
\* subscriber: no input goroutine is left inside sendInputMessage, the
\* message in hand, waiting on a receive that nothing can complete.
C32_SendInputMessageReturns ==
    \A s \in InputSubs : ~(inputPc[s] = "drop" /\ chout[s] = <<>>)

\* C33: whenever the run loop of a snake has ended, its snakeStop closed,
\* be it by a collision, a refused UpdateObject or the closing of the stop
\* channel, the snake is no longer registered in the world.
C33_EndedSnakeNotRegistered ==
    \A s \in Snakes : SnakeStopClosed(s) => ~PgObjectExists(pg, s)

(***************************************************************************)
(* The connections of a pool as calls change them.                         *)
(***************************************************************************)
\* how many times ws is among the connections conns
Occurrences(conns, ws) == Cardinality({i \in 1..Len(conns) : conns[i] = ws})

\* conns with one ws more (n = 1) or less (n = -1), every other connection
\* as often as before
OneMoreOf(before, after, ws, n) ==
    \A c \in Conns :
        Occurrences(after, c) = Occurrences(before, c) + (IF c = ws THEN n ELSE 0)

\* C34: DelConn of a connection of the pool removes it once and calls
\* cancel exactly when none remains; DelConn of a connection that is not in
\* the pool returns the error, calls no cancel and leaves the connections
\* as they were; cancel is called by nothing else; and HasConn is true of
\* exactly the connections added more often than removed.
C34_CancelWithLastOnly ==
    [][LET c == poolLast'.ws
       IN  /\ poolLast'.op = "del" =>
                IF HasConn(c)
                THEN /\ poolLast'.err = ""
                     /\ OneMoreOf(poolConns, poolConns', c, -1)
                     /\ poolLast'.cancel <=> Len(poolConns) = 1
                ELSE /\ poolLast'.err = "not found"
                     /\ ~poolLast'.cancel
                     /\ poolConns' = poolConns
           /\ poolLast'.op = "add" =>
                /\ ~poolLast'.cancel
                /\ IF poolLast'.err = ""
                   THEN OneMoreOf(poolConns, poolConns', c, 1)
                   ELSE poolConns' = poolConns
           /\ poolLast'.cancel => poolConns' = <<>>
           /\ poolCancelled' = (poolCancelled \/ poolLast'.cancel)
           /\ \A d \in Conns : HasConn(d)' <=> Occurrences(poolConns', d) > 0]_vars

\* the only connection left in the pool has been removed and cancel was
\* called
C34_Witness ==
    /\ poolLast = [op |-> "del", ws |-> "ws2", err |-> "", cancel |-> TRUE]
    /\ poolConns = <<>>
    /\ poolCap = ConnLimit
    /\ poolCancelled

====
